---- MODULE Spec2Model ----
(***************************************************************************)
(* Planner export pipeline (pipeline.py, parser.py), its bucket debugging   *)
(* script (debug_buckets.py) and its output validator (test_validation.py). *)
(*                                                                         *)
(* A text is a sequence of one-character strings; a cell of a data frame   *)
(* is a tagged value (NaN, NaT, a text or a timestamp); a data frame is a   *)
(* column set and a sequence of rows.  A timestamp counts the minutes       *)
(* since 1970-01-01 00:00.                                                  *)
(***************************************************************************)
EXTENDS Integers, Sequences, FiniteSets, TLC

\* Largest number of rows of an enumerated input sheet.
MaxRows == 2
\* Longest label enumerated character by character for the normalizers.
MaxLabelLen == 2

(***************************************************************************)
(* Text primitives: str.strip, str.lower, str.replace                      *)
(***************************************************************************)
\* The letters str.lower changes, and what it changes them to.
UpperChars == <<"A", "B", "C", "D", "E", "F", "G", "H", "I", "J", "K", "L", "M",
                 "N", "O", "P", "Q", "R", "S", "T", "U", "V", "W", "X", "Y", "Z",
                 "Ç", "Ã", "Í", "Ú", "Õ", "Ê", "É", "Á", "Ó", "Â", "Ô", "À">>
LowerChars == <<"a", "b", "c", "d", "e", "f", "g", "h", "i", "j", "k", "l", "m",
                 "n", "o", "p", "q", "r", "s", "t", "u", "v", "w", "x", "y", "z",
                 "ç", "ã", "í", "ú", "õ", "ê", "é", "á", "ó", "â", "ô", "à">>

IsSpace(c) == c = " "

LowerChar(c) ==
    IF \E i \in 1..Len(UpperChars) : UpperChars[i] = c
    THEN LowerChars[CHOOSE i \in 1..Len(UpperChars) : UpperChars[i] = c]
    ELSE c

StrLower(s) == [i \in 1..Len(s) |-> LowerChar(s[i])]

StrReplace(s, from, to) == [i \in 1..Len(s) |-> IF s[i] = from THEN to ELSE s[i]]

StrStrip(s) ==
    IF \A i \in 1..Len(s) : IsSpace(s[i])
    THEN << >>
    ELSE LET first == CHOOSE i \in 1..Len(s) :
                          /\ ~IsSpace(s[i])
                          /\ \A j \in 1..(i - 1) : IsSpace(s[j])
             last  == CHOOSE i \in 1..Len(s) :
                          /\ ~IsSpace(s[i])
                          /\ \A j \in (i + 1)..Len(s) : IsSpace(s[j])
         IN  SubSeq(s, first, last)

(***************************************************************************)
(* The four inlined bucket normalizations                                  *)
(***************************************************************************)
\* The accent table of pipeline.py (both sites) and of the allow-list side
\* of debug_buckets.py: nine replacements, applied in this order.
AccentTable == <<  <<"ç", "c">>, <<"ã", "a">>, <<"í", "i">>, <<"ú", "u">>, <<"õ", "o">>,
                   <<"ê", "e">>, <<"é", "e">>, <<"á", "a">>, <<"ó", "o">>  >>

\* The accent table of the record side of debug_buckets.py: five replacements.
DebugAccentTable == <<  <<"ç", "c">>, <<"ã", "a">>, <<"í", "i">>, <<"ú", "u">>, <<"õ", "o">>  >>

RECURSIVE ReplaceAll(_, _, _)
ReplaceAll(s, table, k) ==
    IF k > Len(table) THEN s
    ELSE ReplaceAll(StrReplace(s, table[k][1], table[k][2]), table, k + 1)

\* Mutant of NormalizeRecordLabel: the accents are replaced before lowering,
\* so an upper-case accented letter survives the first pass.
NormalizeRecordLabelReplaceFirst(s) == StrLower(ReplaceAll(StrStrip(s), AccentTable, 1))

\* pipeline.py 181-192: .str.strip().str.lower().str.replace(...) x 9
NormalizeRecordLabel(s) == ReplaceAll(StrLower(StrStrip(s)), AccentTable, 1)

\* pipeline.py 197-206: bucket.lower().replace(...) x 9 (no strip)
NormalizeAllowedLabel(s) == ReplaceAll(StrLower(s), AccentTable, 1)

\* debug_buckets.py 51-56: str(value).strip().lower().replace(...) x 5
DebugNormalizeRecordLabel(s) == ReplaceAll(StrLower(StrStrip(s)), DebugAccentTable, 1)

\* debug_buckets.py 65-74: bucket.lower().replace(...) x 9 (no strip)
DebugNormalizeAllowedLabel(s) == ReplaceAll(StrLower(s), AccentTable, 1)

\* PlannerConfig.ACTIVE_BUCKETS
ACTIVE_BUCKETS ==
    << <<"e", "x", "e", "c", "u", "ç", "ã", "o">>,
       <<"a", "g", "u", "a", "r", "d", "a", "n", "d", "o", " ",
         "v", "a", "l", "i", "d", "a", "ç", "ã", "o">>,
       <<"c", "o", "n", "c", "l", "u", "í", "d", "o", "s">>,
       <<"c", "o", "n", "c", "l", "u", "i", "d", "o">>,
       <<"c", "o", "n", "c", "l", "u", "i", "d", "a">>,
       <<"c", "o", "n", "c", "l", "u", "i", "d", "a", "s">> >>

\* pipeline.py 195-207: allowed_buckets_normalized
AllowedBucketsNormalized ==
    { NormalizeAllowedLabel(ACTIVE_BUCKETS[i]) : i \in 1..Len(ACTIVE_BUCKETS) }

\* debug_buckets.py 62-75: allowed_normalized (the same literal list)
DebugAllowedNormalized ==
    { DebugNormalizeAllowedLabel(ACTIVE_BUCKETS[i]) : i \in 1..Len(ACTIVE_BUCKETS) }

(***************************************************************************)
(* Cells, timestamps and their texts                                       *)
(***************************************************************************)
NaN == [k |-> "nan", s |-> << >>, t |-> 0]
NaT == [k |-> "nat", s |-> << >>, t |-> 0]
Text(s) == [k |-> "str", s |-> s, t |-> 0]
Ts(t) == [k |-> "ts", s |-> << >>, t |-> t]

\* Series.isna / Series.notna
IsNA(c) == c.k \in {"nan", "nat"}
NotNA(c) == ~IsNA(c)

\* Days since 1970-01-01 of a civil date (proleptic Gregorian calendar).
DaysFromCivil(y, m, d) ==
    LET yy  == IF m <= 2 THEN y - 1 ELSE y
        era == yy \div 400
        yoe == yy - era * 400
        mp  == IF m > 2 THEN m - 3 ELSE m + 9
        doy == (153 * mp + 2) \div 5 + d - 1
        doe == yoe * 365 + yoe \div 4 - yoe \div 100 + doy
    IN  era * 146097 + doe - 719468

\* The civil date of a day number, as <<year, month, day>>.
CivilFromDays(z) ==
    LET zz  == z + 719468
        era == zz \div 146097
        doe == zz - era * 146097
        yoe == (doe - doe \div 1460 + doe \div 36524 - doe \div 146096) \div 365
        doy == doe - (365 * yoe + yoe \div 4 - yoe \div 100)
        mp  == (5 * doy + 2) \div 153
        d   == doy - (153 * mp + 2) \div 5 + 1
        m   == IF mp < 10 THEN mp + 3 ELSE mp - 9
        y   == yoe + era * 400
    IN  << IF m <= 2 THEN y + 1 ELSE y, m, d >>

\* pd.Timestamp(year, month, day): minutes since the epoch
Timestamp(y, m, d) == DaysFromCivil(y, m, d) * 1440

\* pd.Timedelta(days=n)
Timedelta(n) == n * 1440

IsLeap(y) == (y % 4 = 0 /\ y % 100 # 0) \/ y % 400 = 0

DaysInMonth(y, m) ==
    IF m = 2 THEN (IF IsLeap(y) THEN 29 ELSE 28)
    ELSE IF m \in {4, 6, 9, 11} THEN 30 ELSE 31

Digits == <<"0", "1", "2", "3", "4", "5", "6", "7", "8", "9">>
IsDigit(c) == \E i \in 1..10 : Digits[i] = c
DigitVal(c) == (CHOOSE i \in 1..10 : Digits[i] = c) - 1

RECURSIVE NumVal(_)
NumVal(s) == IF s = << >> THEN 0
             ELSE NumVal(SubSeq(s, 1, Len(s) - 1)) * 10 + DigitVal(s[Len(s)])

AllDigits(s) == s # << >> /\ \A i \in 1..Len(s) : IsDigit(s[i])

\* A non-negative number as text, zero-padded to the given width.
RECURSIVE NumText(_, _)
NumText(n, width) ==
    IF width = 0 THEN << >>
    ELSE NumText(n \div 10, width - 1) \o << Digits[(n % 10) + 1] >>

\* str(Timestamp) of a midnight timestamp in a datetime column: YYYY-MM-DD;
\* with a time of day: YYYY-MM-DD HH:MM:00
TimestampText(t) ==
    LET c   == CivilFromDays(t \div 1440)
        tod == t % 1440
        day == NumText(c[1], 4) \o <<"-">> \o NumText(c[2], 2) \o <<"-">> \o NumText(c[3], 2)
    IN  IF tod = 0 THEN day
        ELSE day \o <<" ">> \o NumText(tod \div 60, 2) \o <<":">>
                 \o NumText(tod % 60, 2) \o <<":", "0", "0">>

\* Series.astype(str), cell by cell
AsTypeStr(c) ==
    CASE c.k = "nan" -> Text(<<"n", "a", "n">>)
      [] c.k = "nat" -> Text(<<"N", "a", "T">>)
      [] c.k = "ts"  -> Text(TimestampText(c.t))
      [] OTHER       -> c

\* The positions of a separator in a text.
SepPositions(s, sep) == { i \in 1..Len(s) : s[i] = sep }

\* The three fields of a text split at its two separators, or << >> when the
\* text does not hold exactly two of them around three runs of digits.
SplitDate(s, sep) ==
    LET ps == SepPositions(s, sep)
    IN  IF Cardinality(ps) # 2 THEN << >>
        ELSE LET p1 == CHOOSE p \in ps : \A q \in ps : p <= q
                 p2 == CHOOSE p \in ps : \A q \in ps : q <= p
                 f1 == SubSeq(s, 1, p1 - 1)
                 f2 == SubSeq(s, p1 + 1, p2 - 1)
                 f3 == SubSeq(s, p2 + 1, Len(s))
             IN  IF AllDigits(f1) /\ AllDigits(f2) /\ AllDigits(f3)
                 THEN <<f1, f2, f3>> ELSE << >>

ValidCivil(y, m, d) == m \in 1..12 /\ d >= 1 /\ d <= DaysInMonth(y, m)

\* The builds of pandas: before 2.0 a text is first read as ISO 8601,
\* whatever dayfirst says; from 2.0 on guess_datetime_format gives the format,
\* and with dayfirst=True it takes YYYY-A-B for year-day-month when B <= 12.
PandasBuilds == {"iso_first", "guessed_format"}

\* The part of a date text before its first blank, and the part after it.
DatePart(s) ==
    IF SepPositions(s, " ") = {} THEN s
    ELSE SubSeq(s, 1, (CHOOSE p \in SepPositions(s, " ") :
                          \A q \in SepPositions(s, " ") : p <= q) - 1)

TimePart(s) == SubSeq(s, Len(DatePart(s)) + 2, Len(s))

\* The minute of the day of a text H:M or H:M:S, -1 when it is neither;
\* timestamps are kept to the minute.
TimeOfDay(t) ==
    LET ps == SepPositions(t, ":")
        p1 == CHOOSE p \in ps : \A q \in ps : p <= q
        hm == IF Cardinality(ps) = 1
              THEN <<SubSeq(t, 1, p1 - 1), SubSeq(t, p1 + 1, Len(t)), <<"0">> >>
              ELSE SplitDate(t, ":")
    IN  IF Cardinality(ps) \notin {1, 2} \/ hm = << >> THEN -1
        ELSE IF AllDigits(hm[1]) /\ AllDigits(hm[2]) /\ Len(hm[1]) <= 2 /\ Len(hm[2]) <= 2
                /\ Len(hm[3]) <= 2 /\ NumVal(hm[1]) < 24 /\ NumVal(hm[2]) < 60
                /\ NumVal(hm[3]) < 60
        THEN NumVal(hm[1]) * 60 + NumVal(hm[2])
        ELSE -1

\* The date of a date text without time of day, read day first: D/M/YYYY,
\* D.M.YYYY and D-M-YYYY give day D of month M, or day M of month D when M
\* is no month; YYYY-M-D is ISO, but for the build that guesses the format.
DayFirstDate(d, build) ==
    LET slash == SplitDate(d, "/")
        dot   == SplitDate(d, ".")
        dash  == SplitDate(d, "-")
        dmy   == IF slash # << >> THEN slash ELSE IF dot # << >> THEN dot ELSE dash
    IN  IF dash # << >> /\ Len(dash[1]) = 4 /\ Len(dash[2]) <= 2 /\ Len(dash[3]) <= 2
        THEN IF build = "guessed_format" /\ NumVal(dash[3]) <= 12
                /\ ValidCivil(NumVal(dash[1]), NumVal(dash[3]), NumVal(dash[2]))
             THEN Ts(Timestamp(NumVal(dash[1]), NumVal(dash[3]), NumVal(dash[2])))
             ELSE IF ValidCivil(NumVal(dash[1]), NumVal(dash[2]), NumVal(dash[3]))
             THEN Ts(Timestamp(NumVal(dash[1]), NumVal(dash[2]), NumVal(dash[3])))
             ELSE NaT
        ELSE IF dmy # << >> /\ Len(dmy[1]) <= 2 /\ Len(dmy[2]) <= 2 /\ Len(dmy[3]) = 4
        THEN IF ValidCivil(NumVal(dmy[3]), NumVal(dmy[2]), NumVal(dmy[1]))
             THEN Ts(Timestamp(NumVal(dmy[3]), NumVal(dmy[2]), NumVal(dmy[1])))
             ELSE IF NumVal(dmy[2]) > 12
                     /\ ValidCivil(NumVal(dmy[3]), NumVal(dmy[1]), NumVal(dmy[2]))
             THEN Ts(Timestamp(NumVal(dmy[3]), NumVal(dmy[1]), NumVal(dmy[2])))
             ELSE NaT
        ELSE NaT

\* pd.to_datetime(text, dayfirst=True) of one text under a build of pandas:
\* a date, with or without a time of day; NaT stands for the text that
\* errors='coerce' turns into NaT and errors='raise' raises on.
ToDatetimeText(s, build) ==
    LET date == DayFirstDate(DatePart(s), build)
        tod  == IF DatePart(s) = s THEN 0 ELSE TimeOfDay(TimePart(s))
    IN  IF IsNA(date) \/ tod < 0 THEN NaT ELSE Ts(date.t + tod)

\* pd.to_datetime(text, dayfirst=True, errors='coerce') of one date text of a
\* column; the date texts of the sheets are dd/mm/yyyy, which every build
\* reads alike; anything that is no date, 'nan' and '' included, is NaT.
ParseDateText(s) == ToDatetimeText(s, "iso_first")

\* The ends of the runs of lo to hi digits that start at a position: \d{lo,hi}
DigitRun(s, from, lo, hi) ==
    { e \in (from + lo - 1)..(from + hi - 1) :
        e <= Len(s) /\ \A k \in from..e : IsDigit(s[k]) }

\* The ends of the matches of ^\d{..}SEP\d{..}SEP\d{..} at the start of a
\* text, lens being the least and most digits of each run.
MatchThreeRuns(s, lens, sep) ==
    { e3 \in 1..Len(s) :
        \E e1 \in DigitRun(s, 1, lens[1], lens[2]) :
            /\ e1 + 1 <= Len(s) /\ s[e1 + 1] = sep
            /\ \E e2 \in DigitRun(s, e1 + 2, lens[3], lens[4]) :
                  /\ e2 + 1 <= Len(s) /\ s[e2 + 1] = sep
                  /\ e3 \in DigitRun(s, e2 + 2, lens[5], lens[6]) }

\* re.match(pattern, date_str) for some pattern of DateParsingConfig.DATE_PATTERNS:
\* only dd/mm/yyyy is anchored at the end of the text.
MatchesDatePattern(s) ==
    \/ Len(s) \in MatchThreeRuns(s, <<1, 2, 1, 2, 4, 4>>, "/")
    \/ \E e \in MatchThreeRuns(s, <<1, 2, 1, 2, 4, 4>>, "/") :
          /\ e + 1 <= Len(s) /\ IsSpace(s[e + 1])
          /\ \E h \in DigitRun(s, e + 2, 1, 2) :
                /\ h + 1 <= Len(s) /\ s[h + 1] = ":"
                /\ DigitRun(s, h + 2, 1, 2) # {}
    \/ MatchThreeRuns(s, <<4, 4, 1, 2, 1, 2>>, "-") # {}
    \/ MatchThreeRuns(s, <<1, 2, 1, 2, 4, 4>>, "-") # {}
    \/ MatchThreeRuns(s, <<1, 2, 1, 2, 4, 4>>, ".") # {}

\* validate_date_string(date_str), date_str being a text
validate_date_string(date_str) ==
    StrStrip(date_str) # << >> /\ MatchesDatePattern(StrStrip(date_str))

\* datetime.strptime(date_str, fmt) for the first fmt of DATE_FORMATS that
\* fits, NaT when none does: day/month/year with or without H:M or H:M:S,
\* year-month-day with or without H:M:S, day-month-year, day.month.year.
StrptimeFormats(s) ==
    LET d      == DatePart(s)
        colons == Cardinality(SepPositions(TimePart(s), ":"))
        dash   == SplitDate(d, "-")
        iso    == dash # << >> /\ Len(dash[1]) = 4
        slash  == SplitDate(d, "/")
        fields == IF slash # << >> THEN slash
                  ELSE IF dash # << >> THEN dash ELSE SplitDate(d, ".")
        fits   == IF d = s THEN TRUE
                  ELSE IF slash # << >> THEN colons \in {1, 2}
                  ELSE iso /\ colons = 2
        read   == ToDatetimeText(s, "iso_first")
    IN  IF fields # << >> /\ fits /\ NotNA(read)
           /\ CivilFromDays(read.t \div 1440)[2] = NumVal(fields[2])
        THEN read
        ELSE NaT

\* Mutant of parse_single_date: the text is not held against the patterns
\* before it is parsed.
ParseSingleDateUnvalidated(date_value, build) ==
    IF IsNA(date_value) \/ date_value \in {Text(<<"n", "a", "n">>), Text(<<"N", "a", "T">>),
                                           Text(<< >>)}
    THEN [result |-> NaN, attempted |-> FALSE]
    ELSE IF date_value.k = "ts" THEN [result |-> date_value, attempted |-> FALSE]
    ELSE LET date_str == StrStrip(date_value.s)
         IN  IF NotNA(ToDatetimeText(date_str, build))
             THEN [result |-> ToDatetimeText(date_str, build), attempted |-> TRUE]
             ELSE IF NotNA(StrptimeFormats(date_str))
             THEN [result |-> StrptimeFormats(date_str), attempted |-> TRUE]
             ELSE [result |-> NaN, attempted |-> TRUE]

\* parse_single_date(date_value, dayfirst=True): what it returns, NaN
\* standing for None, and whether it got as far as parsing (parser.py 92-104)
parse_single_date(date_value, build) ==
    IF IsNA(date_value) \/ date_value \in {Text(<<"n", "a", "n">>), Text(<<"N", "a", "T">>),
                                           Text(<< >>)}
    THEN [result |-> NaN, attempted |-> FALSE]
    ELSE IF date_value.k = "ts" THEN [result |-> date_value, attempted |-> FALSE]
    ELSE LET date_str == StrStrip(date_value.s)
         IN  IF ~validate_date_string(date_str)
             THEN [result |-> NaN, attempted |-> FALSE]
             ELSE IF NotNA(ToDatetimeText(date_str, build))
             THEN [result |-> ToDatetimeText(date_str, build), attempted |-> TRUE]
             ELSE IF NotNA(StrptimeFormats(date_str))
             THEN [result |-> StrptimeFormats(date_str), attempted |-> TRUE]
             ELSE [result |-> NaN, attempted |-> TRUE]

\* pd.to_datetime(series, dayfirst=True, errors='coerce'), cell by cell
ToDatetime(c) ==
    CASE c.k = "ts"  -> c
      [] c.k = "str" -> ParseDateText(c.s)
      [] OTHER       -> NaT

(***************************************************************************)
(* Data frames: [columns |-> set of names, rows |-> sequence of rows],     *)
(* a row being a function from the column names to cells                   *)
(***************************************************************************)
NRows(df) == Len(df.rows)

\* select_dtypes(include=['object']): read_excel gives a column the object
\* dtype when it holds a text (an all-empty column is float64, a column of
\* dates datetime64).
IsObjectColumn(df, col) ==
    col \in df.columns /\ \E i \in 1..NRows(df) : df.rows[i][col].k = "str"

\* df.loc[mask, col] = value: mask and value are series over the rows
SetWhere(df, col, mask, value) ==
    [df EXCEPT !.rows = [i \in 1..NRows(df) |->
        IF mask[i] THEN [df.rows[i] EXCEPT ![col] = value[i]]
        ELSE df.rows[i]]]

\* df[newcol] = value, a series over the rows; the column is created when absent
AddColumn(df, newcol, value) ==
    [columns |-> df.columns \cup {newcol},
     rows    |-> [i \in 1..NRows(df) |->
                    [c \in df.columns \cup {newcol} |->
                        IF c = newcol THEN value[i] ELSE df.rows[i][c]]]]

\* df.drop(columns=[col])
DropColumn(df, col) ==
    [columns |-> df.columns \ {col},
     rows    |-> [i \in 1..NRows(df) |-> [c \in df.columns \ {col} |-> df.rows[i][c]]]]

\* Number of rows whose cell of the column is not null: series.notna().sum()
CountNotNA(df, col) == Cardinality({ i \in 1..NRows(df) : NotNA(df.rows[i][col]) })

(***************************************************************************)
(* PlannerConfig                                                           *)
(***************************************************************************)
\* PlannerConfig.COLUMN_MAPPING, applied to one column name
RenameColumn(c) ==
    CASE c = "Identificação da tarefa" -> "ID da Tarefa"
      [] c = "Nome da tarefa"          -> "Título"
      [] c = "Nome do Bucket"          -> "Bucket"
      [] c = "Progresso"               -> "Progresso (%)"
      [] c = "Atribuído a"             -> "Atribuído"
      [] c = "Criado em"               -> "Data de criação"
      [] c = "Data de conclusão"       -> "Data de entrega"
      [] c = "Concluído em"            -> "Data de conclusão"
      [] OTHER                         -> c

\* PlannerConfig.DATE_COLUMNS
DATE_COLUMNS ==
    <<"Data de criação", "Data de início", "Data de entrega", "Data de conclusão">>

\* PlannerConfig.DEFAULT_ASSIGNEE
DEFAULT_ASSIGNEE ==
    <<"M", "i", "c", "h", "a", "e", "l", " ", "O", "n", "e", "i", "l", ";", " ",
      "A", "r", "t", "u", "r", " ", "A", "l", "m", "e", "i", "d", "a">>

\* PlannerConfig.START_DATE_FILL_DAYS
START_DATE_FILL_DAYS == 20

(***************************************************************************)
(* pipeline.py: the steps of main                                          *)
(***************************************************************************)
\* load_and_rename: df.rename(columns=COLUMN_MAPPING) of the sheet read
load_and_rename(sheet) ==
    LET cols == { RenameColumn(c) : c \in sheet.columns }
        from(c) == CHOOSE o \in sheet.columns : RenameColumn(o) = c
    IN  [columns |-> cols,
         rows    |-> [i \in 1..NRows(sheet) |-> [c \in cols |-> sheet.rows[i][from(c)]]]]

\* load_and_rename raises EmptyDataError on a sheet without rows
LoadRaises(sheet) == NRows(sheet) = 0

\* validate_required_columns raises KeyError
RequiredColumnsMissing(df) ==
    \E c \in {"Bucket", "Data de entrega", "Título"} : c \notin df.columns

\* Mutant of clean_string_columns: rows holding an empty cell are dropped
\* (a dropna in place of the strip).
CleanStringColumnsDropNa(df) ==
    [df EXCEPT !.rows = SelectSeq(df.rows, LAMBDA r : \A c \in df.columns : NotNA(r[c]))]

\* clean_string_columns: df[col] = df[col].astype(str).str.strip() for every
\* column of object dtype
clean_string_columns(df) ==
    [df EXCEPT !.rows = [i \in 1..NRows(df) |->
        [c \in df.columns |->
            IF IsObjectColumn(df, c)
            THEN Text(StrStrip(AsTypeStr(df.rows[i][c]).s))
            ELSE df.rows[i][c]]]]

\* create_backup_columns: df['Due_raw'] = df['Data de entrega'].astype(str)
create_backup_columns(df) ==
    IF "Data de entrega" \in df.columns
    THEN AddColumn(df, "Due_raw",
                   [i \in 1..NRows(df) |-> AsTypeStr(df.rows[i]["Data de entrega"])])
    ELSE df

\* fill_default_values: df.fillna({'Atribuído': DEFAULT_ASSIGNEE})
fill_default_values(df) ==
    IF "Atribuído" \in df.columns
    THEN SetWhere(df, "Atribuído",
                  [i \in 1..NRows(df) |-> IsNA(df.rows[i]["Atribuído"])],
                  [i \in 1..NRows(df) |-> Text(DEFAULT_ASSIGNEE)])
    ELSE df

\* The bucket_normalized cell of a row (pipeline.py 181-192); the .str
\* accessor gives NaN for a cell that is not a text.
BucketNormalized(r, bucket_col) ==
    IF r[bucket_col].k = "str" THEN Text(NormalizeRecordLabel(r[bucket_col].s)) ELSE NaN

\* mask_invalid_bucket (pipeline.py 216): ~bucket_normalized.isin(allowed)
MaskInvalidBucket(r, bucket_col) ==
    ~(/\ BucketNormalized(r, bucket_col).k = "str"
      /\ BucketNormalized(r, bucket_col).s \in AllowedBucketsNormalized)

\* mask_invalid_bucket as pandas holds it: a boolean series over the rows,
\* computed once, before either column is assigned
InvalidBucketMask(df, bucket_col) ==
    [i \in 1..NRows(df) |-> MaskInvalidBucket(df.rows[i], bucket_col)]

\* pd.NaT broadcast over the rows
AllNaT(df) == [i \in 1..NRows(df) |-> NaT]

\* validate_dates_by_bucket raises: AttributeError from the .str accessor on
\* a bucket column that holds no text, KeyError on an absent date column.
ValidateDatesByBucketRaises(df, bucket_col, start_col, due_col) ==
    /\ bucket_col \in df.columns
    /\ \/ ~IsObjectColumn(df, bucket_col)
       \/ start_col \notin df.columns
       \/ due_col \notin df.columns

\* The exception validate_dates_by_bucket raises: line 181 comes before the
\* lookups of lines 226-227.
ValidateDatesByBucketException(df, bucket_col) ==
    IF ~IsObjectColumn(df, bucket_col) THEN "AttributeError" ELSE "KeyError"

\* Mutant of validate_dates_by_bucket: only the start date is removed.
ValidateDatesByBucketStartOnly(df, bucket_col, start_col, due_col) ==
    IF bucket_col \notin df.columns THEN df
    ELSE SetWhere(df, start_col, InvalidBucketMask(df, bucket_col), AllNaT(df))

\* Mutant of validate_dates_by_bucket: the mask is not negated, so the
\* dates of the allowed buckets are the ones removed.
ValidateDatesByBucketAllowedMasked(df, bucket_col, start_col, due_col) ==
    IF bucket_col \notin df.columns THEN df
    ELSE LET mask == [i \in 1..NRows(df) |-> ~InvalidBucketMask(df, bucket_col)[i]]
         IN  SetWhere(SetWhere(df, start_col, mask, AllNaT(df)), due_col, mask, AllNaT(df))

\* Mutant of validate_dates_by_bucket: the rows of the buckets that may not
\* carry dates are filtered out instead of having their dates removed.
ValidateDatesByBucketFiltered(df, bucket_col, start_col, due_col) ==
    IF bucket_col \notin df.columns THEN df
    ELSE [df EXCEPT !.rows = SelectSeq(df.rows, LAMBDA r : ~MaskInvalidBucket(r, bucket_col))]

\* df_copy['bucket_normalized'] = ... (pipeline.py 180-192), on the copy
WithBucketNormalized(df, bucket_col) ==
    AddColumn(df, "bucket_normalized",
              [i \in 1..NRows(df) |-> BucketNormalized(df.rows[i], bucket_col)])

\* Mutant of validate_dates_by_bucket: the temporary column is not dropped.
ValidateDatesByBucketKeepsTemporary(df, bucket_col, start_col, due_col) ==
    IF bucket_col \notin df.columns THEN df
    ELSE LET mask == InvalidBucketMask(df, bucket_col)
             df_copy == WithBucketNormalized(df, bucket_col)
         IN  SetWhere(SetWhere(df_copy, start_col, mask, AllNaT(df)),
                      due_col, mask, AllNaT(df))

\* validate_dates_by_bucket, when it does not raise: the start and the due
\* date of every row of mask_invalid_bucket become NaT, on a copy that gets
\* the column bucket_normalized and loses it before it is returned.
validate_dates_by_bucket(df, bucket_col, start_col, due_col) ==
    IF bucket_col \notin df.columns THEN df
    ELSE LET mask == InvalidBucketMask(df, bucket_col)
             df_copy == WithBucketNormalized(df, bucket_col)
         IN  DropColumn(SetWhere(SetWhere(df_copy, start_col, mask, AllNaT(df)),
                                 due_col, mask, AllNaT(df)),
                        "bucket_normalized")

\* mask_bucket_dates(df, bucket_col, date_cols): the deprecated name of the
\* rule engine, which passes df and bucket_col on and leaves start_col and
\* due_col at their defaults (pipeline.py 274, 155-156).
mask_bucket_dates(df, bucket_col, date_cols) ==
    validate_dates_by_bucket(df, bucket_col, "Data de início", "Data de entrega")

(***************************************************************************)
(* parser.py: parse_dates and debug_missing_due                            *)
(***************************************************************************)
\* backup_col = f"{col}_original"
BackupColumn(col) == col \o "_original"

\* parse_dates, the statistics of one column (parser.py 191-192) given the
\* frame before and after pd.to_datetime
ParseSuccessful(after, col) == CountNotNA(after, col)
\* Mutant of ParseFailed: the cells that were null before parsing are not
\* taken off the count.
ParseFailedCountsNull(before, after, col) == NRows(after) - CountNotNA(after, col)

ParseFailed(before, after, col) ==
    (NRows(after) - CountNotNA(after, col)) - (NRows(before) - CountNotNA(before, col))

\* df_copy[col] = pd.to_datetime(df_copy[col], dayfirst=dayfirst, errors='coerce')
ParsedColumn(df, col) ==
    SetWhere(df, col, [i \in 1..NRows(df) |-> TRUE],
             [i \in 1..NRows(df) |-> ToDatetime(df.rows[i][col])])

\* parsing_stats[col] (parser.py 191-198); the rate is kept as its whole part
ParsingStats(df, col) ==
    LET successful == ParseSuccessful(ParsedColumn(df, col), col)
        failed     == ParseFailed(df, ParsedColumn(df, col), col)
    IN  [successful   |-> successful,
         failed       |-> failed,
         success_rate |-> IF successful + failed > 0
                          THEN (successful * 100) \div (successful + failed)
                          ELSE 0]

\* The columns parse_dates logs a warning for (parser.py 200-201)
ParseWarnings(df, date_cols, verbose) ==
    { date_cols[k] : k \in { n \in 1..Len(date_cols) :
          /\ date_cols[n] \in df.columns
          /\ verbose
          /\ ParsingStats(df, date_cols[n]).failed > 0 } }

\* parse_dates, the body of the loop for one column (parser.py 179-205)
ParseDateColumn(df, col) ==
    IF col \notin df.columns THEN df
    ELSE LET backed == AddColumn(df, BackupColumn(col),
                                 [i \in 1..NRows(df) |-> AsTypeStr(df.rows[i][col])])
             parsed == SetWhere(backed, col, [i \in 1..NRows(df) |-> TRUE],
                                [i \in 1..NRows(df) |-> ToDatetime(df.rows[i][col])])
         IN  IF ParseFailed(backed, parsed, col) = 0
             THEN DropColumn(parsed, BackupColumn(col))
             ELSE parsed

RECURSIVE ParseDateColumns(_, _, _)
ParseDateColumns(df, date_cols, k) ==
    IF k > Len(date_cols) THEN df
    ELSE ParseDateColumns(ParseDateColumn(df, date_cols[k]), date_cols, k + 1)

\* parse_dates(df, date_cols, dayfirst=True)
parse_dates(df, date_cols) == ParseDateColumns(df, date_cols, 1)

\* debug_missing_due, mask_target_bucket (parser.py 230-232): a series over
\* the rows, the label being trimmed and lowered, and target_bucket lowered
DebugTargetBucketMask(df, bucket_col, target_bucket) ==
    [i \in 1..NRows(df) |->
        /\ df.rows[i][bucket_col].k = "str"
        /\ StrLower(StrStrip(df.rows[i][bucket_col].s)) = StrLower(target_bucket)]

\* debug_missing_due: the frame is returned as it came, whatever the masks
\* hold and whether or not they raise (the body is inside try/except).
debug_missing_due(df, bucket_col, due_raw_col, due_parsed_col) == df

(***************************************************************************)
(* pipeline.py: fill_missing_start_dates                                   *)
(***************************************************************************)
\* mask_to_fill (pipeline.py 317-319)
MaskToFill(r, start_col, due_col) == NotNA(r[due_col]) /\ IsNA(r[start_col])

\* The subtraction of line 331 raises TypeError when a due cell to subtract
\* from is a text, before anything is assigned.
FillRaisesBeforeAssign(df, start_col, due_col) ==
    /\ start_col \in df.columns /\ due_col \in df.columns
    /\ \E i \in 1..NRows(df) :
          MaskToFill(df.rows[i], start_col, due_col) /\ df.rows[i][due_col].k = "str"

\* The sample of line 335 raises KeyError without a 'Título' column, after
\* line 331 has assigned.
FillRaisesAfterAssign(df, start_col, due_col) ==
    /\ start_col \in df.columns /\ due_col \in df.columns
    /\ \E i \in 1..NRows(df) : MaskToFill(df.rows[i], start_col, due_col)
    /\ "Título" \notin df.columns

\* Mutant of fill_missing_start_dates: the offset is added, not subtracted.
FillMissingStartDatesAdded(df, start_col, due_col, days_before) ==
    IF start_col \notin df.columns \/ due_col \notin df.columns THEN df
    ELSE SetWhere(df, start_col,
                  [i \in 1..NRows(df) |-> MaskToFill(df.rows[i], start_col, due_col)],
                  [i \in 1..NRows(df) |-> Ts(df.rows[i][due_col].t + Timedelta(days_before))])

\* Mutant of fill_missing_start_dates: the mask forgets that the start date
\* must be missing, so every row with a due date gets a computed start.
FillMissingStartDatesOverwriting(df, start_col, due_col, days_before) ==
    IF start_col \notin df.columns \/ due_col \notin df.columns THEN df
    ELSE SetWhere(df, start_col,
                  [i \in 1..NRows(df) |-> NotNA(df.rows[i][due_col])],
                  [i \in 1..NRows(df) |-> Ts(df.rows[i][due_col].t - Timedelta(days_before))])

\* fill_missing_start_dates (pipeline.py 312-331), the frame it leaves
fill_missing_start_dates(df, start_col, due_col, days_before) ==
    IF start_col \notin df.columns \/ due_col \notin df.columns THEN df
    ELSE SetWhere(df, start_col,
                  [i \in 1..NRows(df) |-> MaskToFill(df.rows[i], start_col, due_col)],
                  [i \in 1..NRows(df) |-> Ts(df.rows[i][due_col].t - Timedelta(days_before))])

(***************************************************************************)
(* The Excel file between save_dataframe and load_files                    *)
(***************************************************************************)
\* The texts pd.read_excel reads as NaN (its default na_values).
ExcelNaTexts ==
    { <<>>,
      <<"#", "N", "/", "A">>,
      <<"#", "N", "/", "A", " ", "N", "/", "A">>,
      <<"#", "N", "A">>,
      <<"-", "1", ".", "#", "I", "N", "D">>,
      <<"-", "1", ".", "#", "Q", "N", "A", "N">>,
      <<"-", "N", "a", "N">>,
      <<"-", "n", "a", "n">>,
      <<"1", ".", "#", "I", "N", "D">>,
      <<"1", ".", "#", "Q", "N", "A", "N">>,
      <<"<", "N", "A", ">">>,
      <<"N", "/", "A">>,
      <<"N", "A">>,
      <<"N", "U", "L", "L">>,
      <<"N", "a", "N">>,
      <<"N", "o", "n", "e">>,
      <<"n", "/", "a">>,
      <<"n", "a", "n">>,
      <<"n", "u", "l", "l">> }

\* One cell through df.to_excel and pd.read_excel: a missing value is an
\* empty cell, and an empty cell or an NA text is read as missing.
ReadExcelCell(c) ==
    CASE c.k = "ts"  -> c
      [] c.k = "str" -> IF c.s \in ExcelNaTexts THEN NaN ELSE c
      [] OTHER       -> NaN

\* pd.read_excel of the file df.to_excel(index=False) wrote
ReadExcel(file) ==
    [file EXCEPT !.rows = [i \in 1..NRows(file) |->
        [c \in file.columns |-> ReadExcelCell(file.rows[i][c])]]]

(***************************************************************************)
(* test_validation.py: PlannerValidator                                    *)
(***************************************************************************)
Result(name, passed, severity) == [test_name |-> name, passed |-> passed, severity |-> severity]

\* The result run_all_validations records for a check that raised.
ErrorResult(name) == Result(name, FALSE, "ERROR")

\* The first of a list of candidate columns that the frame has, "" if none.
RECURSIVE FirstColumn(_, _, _)
FirstColumn(df, candidates, k) ==
    IF k > Len(candidates) THEN ""
    ELSE IF candidates[k] \in df.columns THEN candidates[k]
    ELSE FirstColumn(df, candidates, k + 1)

validate_row_count(input_df, output_df) ==
    IF NRows(input_df) = NRows(output_df)
    THEN Result("Contagem de Linhas", TRUE, "INFO")
    ELSE Result("Contagem de Linhas", FALSE, "ERROR")

\* set(df[col].dropna().astype(str))
IdSet(df, col) ==
    { AsTypeStr(df.rows[i][col]).s : i \in { j \in 1..NRows(df) : NotNA(df.rows[j][col]) } }

InputIdColumn(input_df) ==
    FirstColumn(input_df, <<"ID da Tarefa", "Identificação da tarefa", "ID", "Task ID">>, 1)

OutputIdColumn(input_df, output_df) ==
    IF "ID da Tarefa" \in output_df.columns THEN "ID da Tarefa" ELSE InputIdColumn(input_df)

\* Mutant of validate_unique_ids: identifiers that appear only in the output
\* are not looked for.
ValidateUniqueIdsMissingOnly(input_df, output_df) ==
    IF InputIdColumn(input_df) = ""
    THEN Result("IDs Únicos", TRUE, "WARNING")
    ELSE IF OutputIdColumn(input_df, output_df) \notin output_df.columns
    THEN Result("IDs Únicos", FALSE, "ERROR")
    ELSE IF IdSet(input_df, InputIdColumn(input_df))
              \subseteq IdSet(output_df, OutputIdColumn(input_df, output_df))
    THEN Result("IDs Únicos", TRUE, "INFO")
    ELSE Result("IDs Únicos", FALSE, "ERROR")

validate_unique_ids(input_df, output_df) ==
    IF InputIdColumn(input_df) = ""
    THEN Result("IDs Únicos", TRUE, "WARNING")
    ELSE IF OutputIdColumn(input_df, output_df) \notin output_df.columns
    THEN Result("IDs Únicos", FALSE, "ERROR")
    ELSE IF IdSet(input_df, InputIdColumn(input_df))
              = IdSet(output_df, OutputIdColumn(input_df, output_df))
    THEN Result("IDs Únicos", TRUE, "INFO")
    ELSE Result("IDs Únicos", FALSE, "ERROR")

\* list(ids)[:n]: n members of the set, or all of them when it has fewer;
\* which ones is up to the iteration order of the set.
RECURSIVE FirstOf(_, _)
FirstOf(ids, n) ==
    IF n = 0 \/ ids = {} THEN {}
    ELSE LET id == CHOOSE x \in ids : TRUE
         IN  {id} \cup FirstOf(ids \ {id}, n - 1)

\* validate_unique_ids, lines 143-148: the details of a failed result, when
\* both identifier columns were found
UniqueIdsDetails(input_df, output_df) ==
    LET input_ids  == IdSet(input_df, InputIdColumn(input_df))
        output_ids == IdSet(output_df, OutputIdColumn(input_df, output_df))
    IN  [missing_ids   |-> FirstOf(input_ids \ output_ids, 10),
         extra_ids     |-> FirstOf(output_ids \ input_ids, 10),
         missing_count |-> Cardinality(input_ids \ output_ids),
         extra_count   |-> Cardinality(output_ids \ input_ids)]

\* validate_critical_dates, the date_columns table: the candidates of the
\* input column for an output column
CriticalInputCandidates(output_col) ==
    CASE output_col = "Data de entrega" -> <<"Data de conclusão", "Data de entrega", "Due Date">>
      [] output_col = "Data de início"  -> <<"Data de início", "Start Date">>
      [] OTHER                          -> <<"Data de criação", "Criado em", "Created Date">>

\* Mutant of CriticalDateIssue: a loss at the threshold is an issue too.
CriticalDateIssueAtThreshold(input_df, output_df, output_col) ==
    LET input_col == FirstColumn(input_df, CriticalInputCandidates(output_col), 1)
    IN  /\ input_col # ""
        /\ output_col \in output_df.columns
        /\ LET input_valid  == CountNotNA(input_df, input_col)
               output_valid == CountNotNA(output_df, output_col)
           IN  /\ input_valid > 0
               /\ IF output_col = "Data de entrega"
                  THEN (input_valid - output_valid) * 100 >= 5 * input_valid
                  ELSE (input_valid - output_valid) * 100 >= 20 * input_valid

\* validate_critical_dates, lines 165-195 for one output column: TRUE when
\* the column adds an issue.  loss_percentage > 5 (due date) or > 20,
\* compared in integers: (in - out) * 100 > threshold * in.
CriticalDateIssue(input_df, output_df, output_col) ==
    LET input_col == FirstColumn(input_df, CriticalInputCandidates(output_col), 1)
    IN  /\ input_col # ""
        /\ output_col \in output_df.columns
        /\ LET input_valid  == CountNotNA(input_df, input_col)
               output_valid == CountNotNA(output_df, output_col)
           IN  /\ input_valid > 0
               /\ IF output_col = "Data de entrega"
                  THEN \/ (input_valid - output_valid) * 100 > 5 * input_valid
                       \/ (input_valid - output_valid) * 100 > 20 * input_valid
                  ELSE (input_valid - output_valid) * 100 > 20 * input_valid

validate_critical_dates(input_df, output_df) ==
    IF \E c \in {"Data de entrega", "Data de início", "Data de criação"} :
           CriticalDateIssue(input_df, output_df, c)
    THEN Result("Datas Críticas", FALSE, "ERROR")
    ELSE Result("Datas Críticas", TRUE, "INFO")

\* output_df['Bucket'].str.strip().str.lower() == bucket, for one row
BucketIs(r, bucket) ==
    r["Bucket"].k = "str" /\ StrLower(StrStrip(r["Bucket"].s)) = bucket

Backlog == <<"b", "a", "c", "k", "l", "o", "g">>
AFazer == <<"a", " ", "f", "a", "z", "e", "r">>
Execucao == <<"e", "x", "e", "c", "u", "ç", "ã", "o">>

\* The rows of the output in a bucket.
RowsIn(output_df, bucket) == { i \in 1..NRows(output_df) : BucketIs(output_df.rows[i], bucket) }

\* validate_bucket_rules raises: AttributeError from .str on a Bucket column
\* without a text, KeyError on a date column that is absent when looked up.
BucketRulesRaises(output_df) ==
    /\ "Bucket" \in output_df.columns
    /\ \/ ~IsObjectColumn(output_df, "Bucket")
       \/ /\ \E b \in {Backlog, AFazer} : RowsIn(output_df, b) # {}
          /\ "Data de início" \notin output_df.columns
       \/ /\ \E b \in {Backlog, AFazer, Execucao} : RowsIn(output_df, b) # {}
          /\ "Data de entrega" \notin output_df.columns

\* Mutant of BucketIssues: three records in ten without a due date are
\* already too many.
BucketIssuesAtThreshold(output_df) ==
    \/ \E b \in {Backlog, AFazer} : \E i \in RowsIn(output_df, b) :
          \/ NotNA(output_df.rows[i]["Data de início"])
          \/ NotNA(output_df.rows[i]["Data de entrega"])
    \/ LET exec    == RowsIn(output_df, Execucao)
           missing == { i \in exec : IsNA(output_df.rows[i]["Data de entrega"]) }
       IN  exec # {} /\ Cardinality(missing) * 10 >= Cardinality(exec) * 3

\* validate_bucket_rules, lines 231-253: TRUE when bucket_issues is not empty.
\* missing_due > total_exec * 0.3 is compared in integers.
BucketIssues(output_df) ==
    \/ \E b \in {Backlog, AFazer} : \E i \in RowsIn(output_df, b) :
          \/ NotNA(output_df.rows[i]["Data de início"])
          \/ NotNA(output_df.rows[i]["Data de entrega"])
    \/ LET exec    == RowsIn(output_df, Execucao)
           missing == { i \in exec : IsNA(output_df.rows[i]["Data de entrega"]) }
       IN  exec # {} /\ Cardinality(missing) * 10 > Cardinality(exec) * 3

validate_bucket_rules(output_df) ==
    IF "Bucket" \notin output_df.columns THEN Result("Regras de Bucket", TRUE, "WARNING")
    ELSE IF BucketRulesRaises(output_df) THEN ErrorResult("validate_bucket_rules")
    ELSE IF BucketIssues(output_df) THEN Result("Regras de Bucket", FALSE, "ERROR")
    ELSE Result("Regras de Bucket", TRUE, "INFO")

\* dates.dt.year
YearOf(t) == CivilFromDays(t \div 1440)[1]

\* validate_data_consistency, lines 275-302: TRUE when issues is not empty.
ConsistencyIssues(output_df, current_year) ==
    \/ /\ "Data de início" \in output_df.columns
       /\ "Data de entrega" \in output_df.columns
       /\ \E i \in 1..NRows(output_df) :
             LET r == output_df.rows[i]
             IN  /\ r["Data de início"].k = "ts" /\ r["Data de entrega"].k = "ts"
                 /\ r["Data de início"].t > r["Data de entrega"].t
    \/ \E c \in {"Data de início", "Data de entrega", "Data de conclusão"} :
          /\ c \in output_df.columns
          /\ \E i \in 1..NRows(output_df) :
                /\ output_df.rows[i][c].k = "ts"
                /\ \/ YearOf(output_df.rows[i][c].t) < current_year - 2
                   \/ YearOf(output_df.rows[i][c].t) > current_year + 2

validate_data_consistency(output_df, current_year) ==
    IF ConsistencyIssues(output_df, current_year)
    THEN Result("Consistência de Dados", FALSE, "WARNING")
    ELSE Result("Consistência de Dados", TRUE, "INFO")

\* run_all_validations, lines 366-386: the results of the battery, in order
Battery(input_df, output_df, current_year) ==
    << validate_row_count(input_df, output_df),
       validate_unique_ids(input_df, output_df),
       validate_critical_dates(input_df, output_df),
       validate_bucket_rules(output_df),
       validate_data_consistency(output_df, current_year) >>

\* Mutant of NoCriticalFailures: a failed check of any severity counts.
NoFailuresAtAll(rs) == \A i \in 1..Len(rs) : rs[i].passed

\* run_all_validations, lines 395-396
NoCriticalFailures(rs) ==
    ~\E i \in 1..Len(rs) : ~rs[i].passed /\ rs[i].severity \in {"ERROR", "CRITICAL"}

(***************************************************************************)
(* The input sheets enumerated                                             *)
(***************************************************************************)
\* Bucket labels as an export holds them; << >> stands for an empty cell.
InputBuckets ==
    { <<"B", "a", "c", "k", "l", "o", "g">>,
      <<" ", "E", "X", "E", "C", "U", "Ç", "Ã", "O", " ">>,
      << >> }

Concluido == <<"C", "o", "n", "c", "l", "u", "í", "d", "o">>

\* The start and the due date of the rows that carry one, <<year, month, day>>.
StartDate == <<2024, 3, 1>>
DueDate == <<2024, 3, 25>>

\* What a row of a sheet is chosen from: its bucket and which dates it has.
RowChoices == [bucket : InputBuckets, start : BOOLEAN, due : BOOLEAN]

\* The shapes of sheet enumerated: date cells as dates or as dd/mm/yyyy
\* texts; "messy" has text dates, identifiers padded with a blank on the odd
\* rows, and neither identifier nor assignee on the even rows; the others
\* lack one column.
Shapes == {"dates", "texts", "messy", "no_start", "no_due", "no_bucket", "no_title"}

TextDateShapes == {"texts", "messy", "bad_dates"}

\* A text with the shape of a date that is no date: 31/02/2024.
BadDateText == <<"3", "1", "/", "0", "2", "/", "2", "0", "2", "4">>

\* A date as the text dd/mm/yyyy.
DayFirstText(civil) ==
    NumText(civil[3], 2) \o <<"/">> \o NumText(civil[2], 2) \o <<"/">> \o NumText(civil[1], 4)

DateCell(shape, has, civil) ==
    IF ~has THEN IF shape \in TextDateShapes THEN NaN ELSE NaT
    ELSE IF shape \in TextDateShapes THEN Text(DayFirstText(civil))
    ELSE Ts(Timestamp(civil[1], civil[2], civil[3]))

SheetColumns(shape) ==
    ({"Identificação da tarefa", "Nome da tarefa", "Nome do Bucket", "Atribuído a",
      "Data de início", "Data de conclusão"}
      \ (CASE shape = "no_start"  -> {"Data de início"}
           [] shape = "no_due"    -> {"Data de conclusão"}
           [] shape = "no_bucket" -> {"Nome do Bucket"}
           [] shape = "no_title"  -> {"Nome da tarefa"}
           [] OTHER               -> {}))
      \cup (IF shape = "completed" THEN {"Concluído em"} ELSE {})

SheetCell(shape, i, choice, col) ==
    CASE col = "Identificação da tarefa" ->
             IF shape # "messy" THEN Text(<<"T", Digits[i + 1]>>)
             ELSE IF i % 2 = 1 THEN Text(<<" ", "T", Digits[i + 1]>>)
             ELSE NaN
      [] col = "Nome da tarefa"    -> Text(<<"t", Digits[i + 1]>>)
      [] col = "Nome do Bucket"    -> IF choice.bucket = << >> THEN NaN ELSE Text(choice.bucket)
      [] col = "Atribuído a"       -> IF shape = "messy" /\ i % 2 = 0 THEN NaN
                                      ELSE Text(<<"A", "n", "a">>)
      [] col = "Data de início"    -> IF shape = "bad_dates" /\ choice.start
                                      THEN Text(BadDateText)
                                      ELSE DateCell(shape, choice.start, StartDate)
      [] col = "Data de conclusão" -> DateCell(shape, choice.due, DueDate)
      [] col = "Concluído em"      -> DateCell(shape, TRUE, DueDate)

Sheet(shape, choices) ==
    [columns |-> SheetColumns(shape),
     rows    |-> [i \in 1..Len(choices) |->
                    [c \in SheetColumns(shape) |-> SheetCell(shape, i, choices[i], c)]]]

\* The three records of the end-to-end scenario: Backlog with a due date,
\* Execução with a due date and no start date, Concluído with both dates.
ScenarioChoices ==
    << [bucket |-> <<"B", "a", "c", "k", "l", "o", "g">>, start |-> FALSE, due |-> TRUE],
       [bucket |-> <<"E", "x", "e", "c", "u", "ç", "ã", "o">>, start |-> FALSE, due |-> TRUE],
       [bucket |-> Concluido, start |-> TRUE, due |-> TRUE] >>

ChoiceSeqs == UNION { [1..n -> RowChoices] : n \in 0..MaxRows }

\* The sheets of the end-to-end scenario.
ScenarioSheets == { Sheet(shape, ScenarioChoices) : shape \in {"dates", "texts"} }

InputSheets ==
    { Sheet(shape, choices) : shape \in Shapes, choices \in ChoiceSeqs } \cup ScenarioSheets

\* Sheets that also say when each task was completed ('Concluído em'), for
\* the rule engine called with a list of date columns.
CompletedSheets == { Sheet("completed", choices) : choices \in ChoiceSeqs }

\* Sheets for parse_dates called alone: date texts, some of them no dates,
\* and date cells.
ParseSheets ==
    { Sheet(shape, choices) : shape \in {"texts", "bad_dates", "completed"},
                              choices \in ChoiceSeqs }

NoFrame == [columns |-> {}, rows |-> << >>]

\* The years the validator's clock may show (pd.Timestamp.now().year).
ClockYears == {2024, 2027}

(***************************************************************************)
(* State                                                                   *)
(***************************************************************************)
VARIABLES
    input_file,   \* the sheet of the input file, as pd.read_excel reads it
    entry,        \* the function under execution: main or one step called alone
    pc,           \* the position in it
    df,           \* the data frame in memory
    output_file,  \* the sheet written by save_dataframe
    written,      \* whether this run has written the output file
    results,      \* PlannerValidator.results
    verdict,      \* what run_all_validations returned
    env,          \* what the file system gives the run
    exit_code,    \* the exit code of processar_planner.main, -1 while it runs
    trace,        \* the positions reached so far, in order
    exception,    \* the exception raised, "none" if none
    label,        \* normalizers: a bucket label
    variant,      \* normalizers: another spelling of the label
    norm,         \* normalizers: what each site has computed so far
    call          \* a function called alone: its arguments and what it gave

vars == <<input_file, entry, pc, df, output_file, written, results, verdict,
          env, exit_code, trace, exception, label, variant, norm, call>>

pipelineVars == <<input_file, entry, pc, df, output_file, written, results, verdict,
                  env, exit_code, trace, exception>>
normVars == <<label, variant, norm>>

\* No function has been called alone.
NoCall == [fn |-> "none"]

Sites == {"pipeline_record", "pipeline_allowed", "debug_record", "debug_allowed"}

NormIdle == [s \in Sites |-> [passes |-> 0, out |-> << >>, out_variant |-> << >>]]

Entries == {"main", "validate_dates_by_bucket", "fill_missing_start_dates",
            "mask_bucket_dates", "parse_dates"}

\* processar_planner.main, lines 162-177: the input file is there and the
\* validator is asked for ("ok") or not ("no_validation"); the file named on
\* the command line does not exist; no file matches the patterns of
\* find_latest_planner_file; validate_paths returns False.
LaunchEnvs == {"ok", "no_validation", "named_missing", "none_found", "bad_paths"}

MissingFileEnvs == {"named_missing", "none_found"}

Init ==
    /\ entry \in Entries
    /\ env \in LaunchEnvs
    /\ entry # "main" => env = "ok"
    /\ input_file \in CASE env \in MissingFileEnvs      -> {NoFrame}
                       [] entry = "mask_bucket_dates" -> CompletedSheets
                       [] entry = "parse_dates"       -> ParseSheets
                       [] env = "ok"                   -> InputSheets
                       [] OTHER                        -> ScenarioSheets
    /\ pc = "start"
    /\ df = NoFrame
    /\ output_file = NoFrame
    /\ written = FALSE
    /\ results = << >>
    /\ verdict = "none"
    /\ exit_code = -1
    /\ trace = << >>
    /\ exception = "none"
    /\ label = << >> /\ variant = << >> /\ norm = NormIdle
    /\ call = NoCall

(***************************************************************************)
(* pipeline.main, step by step.  An exception leaves the try block of      *)
(* main, which logs it and raises it again: pc = "raised".                  *)
(***************************************************************************)
Step(from, to, frame) ==
    /\ pc = from
    /\ pc' = to
    /\ df' = frame
    /\ trace' = Append(trace, to)
    /\ UNCHANGED <<input_file, entry, output_file, written, results, verdict,
                   env, exit_code, exception, normVars, call>>

\* A step raises: the frame is what the step had made of it by then.
Raise(from, exc, frame) ==
    /\ pc = from
    /\ pc' = "raised"
    /\ exception' = exc
    /\ df' = frame
    /\ trace' = Append(trace, "raised")
    /\ UNCHANGED <<input_file, entry, output_file, written, results, verdict,
                   env, exit_code, normVars, call>>

\* processar_planner.main, lines 162-177: the input file is looked up and the
\* paths are validated; sys.exit(1) when either fails.
ResolveInput ==
    /\ entry = "main"
    /\ pc = "start"
    /\ IF env \in {"named_missing", "none_found", "bad_paths"}
       THEN pc' = "exited" /\ exit_code' = 1
       ELSE pc' = "launched" /\ exit_code' = exit_code
    /\ trace' = Append(trace, pc')
    /\ UNCHANGED <<input_file, entry, df, output_file, written, results, verdict,
                   env, exception, normVars, call>>

\* Where a run starts to load: main after the paths are validated, a step
\* called alone at once.
LoadPosition == IF entry = "main" THEN "launched" ELSE "start"

\* 1. df = load_and_rename(input_path); a step called alone gets the same frame
LoadAndRename ==
    IF LoadRaises(input_file)
    THEN Raise(LoadPosition, "EmptyDataError", df)
    ELSE Step(LoadPosition, "loaded", load_and_rename(input_file))

\* 2. validate_required_columns(df)
ValidateRequiredColumns ==
    /\ entry = "main"
    /\ IF RequiredColumnsMissing(df)
       THEN Raise("loaded", "KeyError", df)
       ELSE Step("loaded", "columns_ok", df)

\* 3. df = clean_string_columns(df)
CleanStringColumns ==
    /\ entry = "main"
    /\ Step("columns_ok", "cleaned", clean_string_columns(df))

\* 4. df = create_backup_columns(df)
CreateBackupColumns ==
    /\ entry = "main"
    /\ Step("cleaned", "backed_up", create_backup_columns(df))

\* 5. .pipe(fill_default_values)
FillDefaultValues ==
    /\ entry = "main"
    /\ Step("backed_up", "defaults_filled", fill_default_values(df))

\* 5. .pipe(validate_dates_by_bucket, bucket_col='Bucket')
ValidateDatesByBucket ==
    /\ entry = "main"
    /\ IF ValidateDatesByBucketRaises(df, "Bucket", "Data de início", "Data de entrega")
       THEN Raise("defaults_filled", ValidateDatesByBucketException(df, "Bucket"), df)
       ELSE Step("defaults_filled", "rules_applied",
                 validate_dates_by_bucket(df, "Bucket", "Data de início", "Data de entrega"))

\* 5. .pipe(parse_dates, date_cols=DATE_COLUMNS)
ParseDates ==
    /\ entry = "main"
    /\ Step("rules_applied", "parsed", parse_dates(df, DATE_COLUMNS))

\* 5. .pipe(fill_missing_start_dates, ..., days_before=START_DATE_FILL_DAYS)
FillMissingStartDates ==
    /\ entry = "main"
    /\ IF FillRaisesBeforeAssign(df, "Data de início", "Data de entrega")
       THEN Raise("parsed", "TypeError", df)
       ELSE IF FillRaisesAfterAssign(df, "Data de início", "Data de entrega")
       THEN Raise("parsed", "KeyError",
                  fill_missing_start_dates(df, "Data de início", "Data de entrega",
                                           START_DATE_FILL_DAYS))
       ELSE Step("parsed", "starts_filled",
                 fill_missing_start_dates(df, "Data de início", "Data de entrega",
                                          START_DATE_FILL_DAYS))

\* 5. .pipe(debug_missing_due, ...)
DebugMissingDue ==
    /\ entry = "main"
    /\ Step("starts_filled", "debugged",
            debug_missing_due(df, "Bucket", "Due_raw", "Data de entrega"))

\* Mutant of SaveDataframe: the sheet is written as soon as the dates are
\* parsed, while the transformations go on.
SaveDataframeEarly ==
    /\ entry = "main"
    /\ pc = "parsed"
    /\ ~written
    /\ output_file' = df
    /\ written' = TRUE
    /\ UNCHANGED <<input_file, entry, pc, df, results, verdict, env, exit_code, trace,
                   exception, normVars, call>>

\* 6-7. log_processing_stats(df); save_dataframe(df, generate_output_filename(..))
SaveDataframe ==
    /\ entry = "main"
    /\ pc = "debugged"
    /\ pc' = "saved"
    /\ output_file' = df
    /\ written' = TRUE
    /\ trace' = Append(trace, "saved")
    /\ UNCHANGED <<input_file, entry, df, results, verdict, env, exit_code, exception,
                   normVars, call>>

\* Mutant of RunAllValidations: the validator runs whether or not it was
\* asked for.
RunAllValidationsUnasked ==
    /\ entry = "main"
    /\ pc = "saved"
    /\ \E current_year \in ClockYears :
          LET rs == results \o Battery(ReadExcel(input_file), ReadExcel(output_file),
                                       current_year)
          IN  /\ results' = rs
              /\ verdict' = IF NoCriticalFailures(rs) THEN "passed" ELSE "failed"
    /\ pc' = "validated"
    /\ trace' = Append(trace, "validated")
    /\ UNCHANGED <<input_file, entry, df, output_file, written, env, exit_code, exception,
                   normVars, call>>

\* test_validation.main(input_path, output_file): PlannerValidator.run_all_validations,
\* both files being read again from disk
RunAllValidations ==
    /\ entry = "main"
    /\ pc = "saved"
    /\ env # "no_validation"
    /\ \E current_year \in ClockYears :
          LET rs == results \o Battery(ReadExcel(input_file), ReadExcel(output_file),
                                       current_year)
          IN  /\ results' = rs
              /\ verdict' = IF NoCriticalFailures(rs) THEN "passed" ELSE "failed"
    /\ pc' = "validated"
    /\ trace' = Append(trace, "validated")
    /\ UNCHANGED <<input_file, entry, df, output_file, written, env, exit_code, exception,
                   normVars, call>>

\* Mutant of Finish: a failed validation ends the run with exit code 1.
FinishByVerdict ==
    /\ entry = "main"
    /\ \/ pc = "validated"
       \/ pc = "saved" /\ env = "no_validation"
    /\ pc' = "exited"
    /\ exit_code' = IF verdict = "failed" THEN 1 ELSE 0
    /\ trace' = Append(trace, "exited")
    /\ UNCHANGED <<input_file, entry, df, output_file, written, results, verdict, env,
                   exception, normVars, call>>

\* processar_planner.main, line 191: the end of the try block is reached and
\* main returns, whatever the validator said.
Finish ==
    /\ entry = "main"
    /\ \/ pc = "validated"
       \/ pc = "saved" /\ env = "no_validation"
    /\ pc' = "exited"
    /\ exit_code' = 0
    /\ trace' = Append(trace, "exited")
    /\ UNCHANGED <<input_file, entry, df, output_file, written, results, verdict, env,
                   exception, normVars, call>>

\* processar_planner.main, lines 196-199: an exception of the pipeline,
\* raised again by pipeline.main, ends the run with sys.exit(1).
HandleException ==
    /\ entry = "main"
    /\ pc = "raised"
    /\ pc' = "exited"
    /\ exit_code' = 1
    /\ trace' = Append(trace, "exited")
    /\ UNCHANGED <<input_file, entry, df, output_file, written, results, verdict, env,
                   exception, normVars, call>>

\* The positions of the try block of processar_planner.main.
TryPositions ==
    {"start", "launched", "loaded", "columns_ok", "cleaned", "backed_up", "defaults_filled",
     "rules_applied", "parsed", "starts_filled", "debugged", "saved", "validated"}

\* processar_planner.main, lines 193-195: Ctrl+C anywhere in the try block
\* ends the run with sys.exit(130).
KeyboardInterrupt ==
    /\ entry = "main"
    /\ pc \in TryPositions
    /\ pc' = "exited"
    /\ exit_code' = 130
    /\ exception' = "KeyboardInterrupt"
    /\ trace' = Append(trace, "interrupted")
    /\ UNCHANGED <<input_file, entry, df, output_file, written, results, verdict, env,
                   normVars, call>>

(***************************************************************************)
(* The rule engine and the start-date inferencer called alone, on the      *)
(* frame load_and_rename gives                                             *)
(***************************************************************************)
\* A function called alone returns: df is the frame it returns, call holds
\* the arguments and the caller's frame as the call has left it.
Return(to, frame, record) ==
    /\ pc = "loaded"
    /\ pc' = to
    /\ df' = frame
    /\ call' = record
    /\ trace' = Append(trace, to)
    /\ UNCHANGED <<input_file, entry, output_file, written, results, verdict,
                   env, exit_code, exception, normVars>>

\* validate_dates_by_bucket(df, 'Bucket'): every assignment is made on
\* df_copy (pipeline.py 180), the frame of the caller keeps its cells.
CallValidateDatesByBucket ==
    /\ entry = "validate_dates_by_bucket"
    /\ IF ValidateDatesByBucketRaises(df, "Bucket", "Data de início", "Data de entrega")
       THEN Raise("loaded", ValidateDatesByBucketException(df, "Bucket"), df)
       ELSE Return("rules_returned",
                   validate_dates_by_bucket(df, "Bucket", "Data de início", "Data de entrega"),
                   [fn |-> "validate_dates_by_bucket", caller_df |-> df])

\* The lists of date columns mask_bucket_dates is called with.
DateColsChoices ==
    { {"Data de início", "Data de entrega"}, {"Data de entrega"}, {"Data de conclusão"},
      {"Data de início", "Data de entrega", "Data de conclusão"} }

\* mask_bucket_dates(df, 'Bucket', date_cols)
CallMaskBucketDates ==
    /\ entry = "mask_bucket_dates"
    /\ IF ValidateDatesByBucketRaises(df, "Bucket", "Data de início", "Data de entrega")
       THEN Raise("loaded", ValidateDatesByBucketException(df, "Bucket"), df)
       ELSE \E date_cols \in DateColsChoices :
               Return("mask_returned", mask_bucket_dates(df, "Bucket", date_cols),
                      [fn |-> "mask_bucket_dates", caller_df |-> df,
                       date_cols |-> date_cols])

\* parse_dates(df, DATE_COLUMNS): the columns are parsed on df.copy()
\* (parser.py 173)
CallParseDates ==
    /\ entry = "parse_dates"
    /\ Return("parse_returned", parse_dates(df, DATE_COLUMNS),
              [fn |-> "parse_dates", caller_df |-> df,
               warnings |-> ParseWarnings(df, DATE_COLUMNS, TRUE)])

CallFillMissingStartDates ==
    /\ entry = "fill_missing_start_dates"
    /\ IF FillRaisesBeforeAssign(df, "Data de início", "Data de entrega")
       THEN Raise("loaded", "TypeError", df)
       ELSE IF FillRaisesAfterAssign(df, "Data de início", "Data de entrega")
       THEN Raise("loaded", "KeyError",
                  fill_missing_start_dates(df, "Data de início", "Data de entrega",
                                           START_DATE_FILL_DAYS))
       ELSE Step("loaded", "fill_returned",
                 fill_missing_start_dates(df, "Data de início", "Data de entrega",
                                          START_DATE_FILL_DAYS))

Next ==
    \/ LoadAndRename
    \/ ValidateRequiredColumns
    \/ CleanStringColumns
    \/ CreateBackupColumns
    \/ FillDefaultValues
    \/ ValidateDatesByBucket
    \/ ParseDates
    \/ FillMissingStartDates
    \/ DebugMissingDue
    \/ SaveDataframe
    \/ RunAllValidations
    \/ ResolveInput
    \/ Finish
    \/ HandleException
    \/ KeyboardInterrupt
    \/ CallValidateDatesByBucket
    \/ CallFillMissingStartDates
    \/ CallMaskBucketDates
    \/ CallParseDates

Spec == Init /\ [][Next]_vars

(***************************************************************************)
(* The normalizers alone: a label, another spelling of it, and each of the *)
(* four sites applied to both                                              *)
(***************************************************************************)
\* How often the rule engine's normalization is applied to its own result.
MaxPasses == 2

NormAlphabet == {" ", "c", "Ç", "é", "â", "A"}

NormLabels ==
    UNION { [1..n -> NormAlphabet] : n \in 0..MaxLabelLen }
      \cup { <<"E", "x", "e", "c", "u", "ç", "ã", "o">>,
             <<"e", "x", "e", "c", "u", "c", "a", "o">>,
             <<" ", "E", "X", "E", "C", "U", "Ç", "Ã", "O", " ">>,
             <<"e", "x", "e", "c", "u", "ç", "á", "o">>,
             Concluido }

\* str.upper, for writing a label in capitals
UpperChar(c) ==
    IF \E i \in 1..Len(LowerChars) : LowerChars[i] = c
    THEN UpperChars[CHOOSE i \in 1..Len(LowerChars) : LowerChars[i] = c]
    ELSE c

StrUpper(s) == [i \in 1..Len(s) |-> UpperChar(s[i])]

\* The unaccented spelling of a label: every letter with a diacritic is
\* written as its base letter, in either case.
BaseLetters ==
    << <<"ç", "c">>, <<"ã", "a">>, <<"á", "a">>, <<"â", "a">>, <<"é", "e">>, <<"ê", "e">>,
       <<"í", "i">>, <<"ó", "o">>, <<"ô", "o">>, <<"õ", "o">>, <<"ú", "u">>, <<"à", "a">>,
       <<"Ç", "C">>, <<"Ã", "A">>, <<"Á", "A">>, <<"Â", "A">>, <<"É", "E">>, <<"Ê", "E">>,
       <<"Í", "I">>, <<"Ó", "O">>, <<"Ô", "O">>, <<"Õ", "O">>, <<"Ú", "U">>, <<"À", "A">> >>

Unaccented(s) == ReplaceAll(s, BaseLetters, 1)

NormInit ==
    /\ label \in NormLabels
    /\ variant = label
    /\ norm = NormIdle
    /\ input_file = NoFrame /\ entry = "none" /\ pc = "idle" /\ df = NoFrame
    /\ output_file = NoFrame /\ written = FALSE /\ results = << >> /\ verdict = "none"
    /\ env = "none" /\ exit_code = -1 /\ trace = << >> /\ exception = "none"
    /\ call = NoCall

Untouched == \A s \in Sites : norm[s].passes = 0

Respell(spelling) ==
    /\ Untouched
    /\ variant' = spelling
    /\ UNCHANGED <<label, norm, pipelineVars, call>>

\* The same label typed in capitals, in small letters, between blanks, or
\* without its accents.
RespellUpper == pc = "idle" /\ Respell(StrUpper(variant))
RespellLower == pc = "idle" /\ Respell(StrLower(variant))
RespellPadded == pc = "idle" /\ Len(variant) < Len(label) + 2 /\ Respell(<<" ">> \o variant \o <<" ">>)
RespellUnaccented == pc = "idle" /\ Respell(Unaccented(variant))

\* What a site normalizes next: the two spellings first, then its own results.
Operand(site) == IF norm[site].passes = 0 THEN label ELSE norm[site].out
OperandVariant(site) == IF norm[site].passes = 0 THEN variant ELSE norm[site].out_variant

\* One site applied, out and out_variant being what it made of its operands.
Apply(site, out, out_variant, limit) ==
    /\ norm[site].passes < limit
    /\ norm' = [norm EXCEPT ![site] =
                  [passes |-> @.passes + 1, out |-> out, out_variant |-> out_variant]]
    /\ UNCHANGED <<label, variant, pipelineVars, call>>

\* pipeline.py 181-192
NormalizePipelineRecord ==
    /\ pc = "idle"
    /\ Apply("pipeline_record", NormalizeRecordLabel(Operand("pipeline_record")),
             NormalizeRecordLabel(OperandVariant("pipeline_record")), MaxPasses)
\* pipeline.py 197-206
NormalizePipelineAllowed ==
    /\ pc = "idle"
    /\ Apply("pipeline_allowed", NormalizeAllowedLabel(Operand("pipeline_allowed")),
             NormalizeAllowedLabel(OperandVariant("pipeline_allowed")), 1)
\* debug_buckets.py 51-56
NormalizeDebugRecord ==
    /\ pc = "idle"
    /\ Apply("debug_record", DebugNormalizeRecordLabel(Operand("debug_record")),
             DebugNormalizeRecordLabel(OperandVariant("debug_record")), 1)
\* debug_buckets.py 65-74
NormalizeDebugAllowed ==
    /\ pc = "idle"
    /\ Apply("debug_allowed", DebugNormalizeAllowedLabel(Operand("debug_allowed")),
             DebugNormalizeAllowedLabel(OperandVariant("debug_allowed")), 1)

NormNext ==
    \/ RespellUpper
    \/ RespellLower
    \/ RespellPadded
    \/ RespellUnaccented
    \/ NormalizePipelineRecord
    \/ NormalizePipelineAllowed
    \/ NormalizeDebugRecord
    \/ NormalizeDebugAllowed

SpecNorm == NormInit /\ [][NormNext]_vars

(***************************************************************************)
(* The validator alone: PlannerValidator(input_file, output_file) on an    *)
(* input sheet and an output sheet of any content, run_all_validations     *)
(* check by check                                                          *)
(***************************************************************************)
\* The most rows a sheet given to the validator has.
MaxValRows == 20

\* Bucket labels of the output sheets; << >> stands for an empty cell.
ValBuckets ==
    { <<"B", "a", "c", "k", "l", "o", "g">>,
      <<" ", "A", " ", "F", "a", "z", "e", "r", " ">>,
      <<"E", "X", "E", "C", "U", "Ç", "Ã", "O">>,
      <<"E", "x", "e", "c", "u", "c", "a", "o">>,
      Concluido,
      << >> }

\* What a pair of sheets is built from: the numbers of rows, of rows with a
\* due date and with a start date (the first ones), the bucket of the output
\* rows, by how much the identifiers of the output are shifted, whether each
\* sheet has its identifier column, how many output rows start after they
\* are due, the columns the output lacks, and the numbers of rows with a
\* creation date.
PlainPair ==
    [rows_in |-> 2, rows_out |-> 2, due_in |-> 2, due_out |-> 2, start_in |-> 0,
     start_out |-> 0, bucket |-> Concluido, id_shift |-> 0, ids_in |-> TRUE,
     ids_out |-> TRUE, late_start |-> 0, lacks |-> {}, created_in |-> 0,
     created_out |-> 0]

\* Pairs that differ in the due dates kept.
DuePairs ==
    { [PlainPair EXCEPT !.rows_in = MaxValRows, !.rows_out = MaxValRows,
                        !.due_in = i, !.due_out = o] :
        i \in {0, 10, MaxValRows}, o \in 0..MaxValRows }

\* Pairs that differ in the start dates kept.
StartPairs ==
    { [PlainPair EXCEPT !.rows_in = MaxValRows, !.rows_out = MaxValRows,
                        !.due_in = MaxValRows, !.due_out = MaxValRows,
                        !.start_in = i, !.start_out = o] :
        i \in {0, 5}, o \in 0..MaxValRows }

\* Pairs that differ in the creation dates kept.
CreatedPairs ==
    { [PlainPair EXCEPT !.rows_in = 5, !.rows_out = 5, !.due_in = 5, !.due_out = 5,
                        !.created_in = i, !.created_out = o] :
        i \in {0, 5}, o \in 0..5 }

\* Pairs that differ in the bucket of the output rows and the dates they carry.
BucketPairs ==
    UNION { { [PlainPair EXCEPT !.rows_in = n, !.rows_out = n, !.due_in = n,
                                !.due_out = d, !.start_out = st, !.bucket = b,
                                !.lacks = l] :
                d \in 0..n, st \in {0, 1}, b \in ValBuckets,
                l \in {{}, {"Data de início"}, {"Data de entrega"}, {"Bucket"}} } :
            n \in {1, 10} }

\* Pairs that differ in the identifiers.
IdPairs ==
    { [PlainPair EXCEPT !.rows_in = i, !.due_in = i, !.rows_out = o, !.due_out = o,
                        !.id_shift = sh, !.ids_in = a, !.ids_out = b] :
        i \in {0, 1, 11, 12}, o \in {0, 1, 11, 12}, sh \in {0, 1, 11},
        a \in BOOLEAN, b \in BOOLEAN }

\* Pairs with output rows that start after they are due.
LatePairs ==
    UNION { { [PlainPair EXCEPT !.start_out = st, !.late_start = l] : l \in 0..st } :
            st \in 0..2 }

PairChoices ==
    DuePairs \cup StartPairs \cup CreatedPairs \cup BucketPairs \cup IdPairs \cup LatePairs

\* The identifier of row i, as the text T01, T02, ...
IdText(i) == <<"T">> \o NumText(i, 2)

\* The input sheet as the validator reads it: the column names of the export.
ValInput(p) ==
    LET cols == {"Nome do Bucket", "Data de início", "Data de conclusão", "Criado em"}
                  \cup (IF p.ids_in THEN {"Identificação da tarefa"} ELSE {})
    IN  [columns |-> cols,
         rows |-> [i \in 1..p.rows_in |->
            [c \in cols |->
               CASE c = "Identificação da tarefa" -> Text(IdText(i))
                 [] c = "Nome do Bucket" -> IF p.bucket = << >> THEN NaN ELSE Text(p.bucket)
                 [] c = "Data de início" ->
                      IF i <= p.start_in
                      THEN Ts(Timestamp(StartDate[1], StartDate[2], StartDate[3])) ELSE NaN
                 [] c = "Criado em" ->
                      IF i <= p.created_in
                      THEN Ts(Timestamp(StartDate[1], StartDate[2], StartDate[3])) ELSE NaN
                 [] c = "Data de conclusão" ->
                      IF i <= p.due_in
                      THEN Ts(Timestamp(DueDate[1], DueDate[2], DueDate[3])) ELSE NaN]]]

\* The output sheet as the validator reads it: the renamed columns.
ValOutput(p) ==
    LET cols == ({"Bucket", "Data de início", "Data de entrega", "Data de criação"}
                   \cup (IF p.ids_out THEN {"ID da Tarefa"} ELSE {})) \ p.lacks
    IN  [columns |-> cols,
         rows |-> [i \in 1..p.rows_out |->
            [c \in cols |->
               CASE c = "ID da Tarefa" -> Text(IdText(i + p.id_shift))
                 [] c = "Bucket" -> IF p.bucket = << >> THEN NaN ELSE Text(p.bucket)
                 [] c = "Data de início" ->
                      IF i > p.start_out THEN NaN
                      ELSE IF i <= p.late_start
                      THEN Ts(Timestamp(DueDate[1], DueDate[2], DueDate[3]) + Timedelta(1))
                      ELSE Ts(Timestamp(StartDate[1], StartDate[2], StartDate[3]))
                 [] c = "Data de criação" ->
                      IF i <= p.created_out
                      THEN Ts(Timestamp(StartDate[1], StartDate[2], StartDate[3])) ELSE NaN
                 [] c = "Data de entrega" ->
                      IF i <= p.due_out
                      THEN Ts(Timestamp(DueDate[1], DueDate[2], DueDate[3])) ELSE NaN]]]

\* load_files: both sheets are read, or pd.read_excel raises on one of them.
ValEnvs == {"readable", "input_unreadable", "output_unreadable"}

ValInit ==
    /\ env \in ValEnvs
    /\ \E p \in IF env = "readable" THEN PairChoices ELSE {PlainPair} :
          /\ input_file = ValInput(p)
          /\ output_file = ValOutput(p)
    /\ entry = "run_all_validations"
    /\ pc = "created"
    /\ df = NoFrame
    /\ written = TRUE
    /\ results = << >>
    /\ verdict = "none"
    /\ exit_code = -1
    /\ trace = << >>
    /\ exception = "none"
    /\ label = << >> /\ variant = << >> /\ norm = NormIdle
    /\ call = NoCall

\* One step of run_all_validations that records a result.
Record(from, to, result) ==
    /\ pc = from
    /\ pc' = to
    /\ results' = Append(results, result)
    /\ trace' = Append(trace, to)
    /\ UNCHANGED <<input_file, entry, df, output_file, written, verdict, env, exit_code,
                   exception, normVars, call>>

\* run_all_validations, lines 360-361: if not self.load_files(): return False
LoadFiles ==
    /\ entry = "run_all_validations"
    /\ pc = "created"
    /\ IF env = "readable"
       THEN pc' = "files_loaded" /\ verdict' = verdict
       ELSE pc' = "returned" /\ verdict' = "failed"
    /\ trace' = Append(trace, pc')
    /\ UNCHANGED <<input_file, entry, df, output_file, written, results, env, exit_code,
                   exception, normVars, call>>

\* run_all_validations, lines 375-386, once for each entry of validations
ValidateRowCount ==
    /\ entry = "run_all_validations"
    /\ Record("files_loaded", "row_count_checked", validate_row_count(input_file, output_file))

ValidateUniqueIds ==
    /\ entry = "run_all_validations"
    /\ Record("row_count_checked", "ids_checked", validate_unique_ids(input_file, output_file))

ValidateCriticalDates ==
    /\ entry = "run_all_validations"
    /\ Record("ids_checked", "dates_checked", validate_critical_dates(input_file, output_file))

ValidateBucketRules ==
    /\ entry = "run_all_validations"
    /\ Record("dates_checked", "buckets_checked", validate_bucket_rules(output_file))

ValidateDataConsistency ==
    /\ entry = "run_all_validations"
    /\ \E current_year \in ClockYears :
          Record("buckets_checked", "consistency_checked",
                 validate_data_consistency(output_file, current_year))

\* run_all_validations, lines 395-396
ReturnVerdict ==
    /\ entry = "run_all_validations"
    /\ pc = "consistency_checked"
    /\ pc' = "returned"
    /\ verdict' = IF NoCriticalFailures(results) THEN "passed" ELSE "failed"
    /\ trace' = Append(trace, "returned")
    /\ UNCHANGED <<input_file, entry, df, output_file, written, results, env, exit_code,
                   exception, normVars, call>>

\* How often run_all_validations is called on the one validator.
MaxCalls == 2

\* The calls that have returned.
CallsReturned == Cardinality({ k \in 1..Len(trace) : trace[k] = "returned" })

\* validator.run_all_validations() once more on the same PlannerValidator:
\* self.results is set to [] in __init__ only and keeps what it holds.
RunAllValidationsAgain ==
    /\ entry = "run_all_validations"
    /\ pc = "returned"
    /\ CallsReturned < MaxCalls
    /\ pc' = "created"
    /\ trace' = Append(trace, "created")
    /\ UNCHANGED <<input_file, entry, df, output_file, written, results, verdict, env,
                   exit_code, exception, normVars, call>>

ValNext ==
    \/ RunAllValidationsAgain
    \/ LoadFiles
    \/ ValidateRowCount
    \/ ValidateUniqueIds
    \/ ValidateCriticalDates
    \/ ValidateBucketRules
    \/ ValidateDataConsistency
    \/ ReturnVerdict

SpecVal == ValInit /\ [][ValNext]_vars

(***************************************************************************)
(* Properties                                                              *)
(***************************************************************************)
\* The run has been at a position.
Reached(position) == \E k \in 1..Len(trace) : trace[k] = position

\* The input as load_and_rename hands it to the steps.
InputFrame == load_and_rename(input_file)

HasDateColumns(frame) ==
    {"Bucket", "Data de início", "Data de entrega"} \subseteq frame.columns

\* The normalized bucket label of a row (trimmed, lowered, accents replaced)
\* is not in the normalized allow-list; an empty bucket is not in it either.
Forbidden(r) ==
    ~(r["Bucket"].k = "str" /\ NormalizeRecordLabel(r["Bucket"].s) \in AllowedBucketsNormalized)

NoDates(r) == IsNA(r["Data de início"]) /\ IsNA(r["Data de entrega"])

\* C1: once validate_dates_by_bucket has run (alone or as a step of main) on
\* a frame with the bucket, start and due columns, every row whose
\* normalized bucket is not in the allow-list, an empty bucket included, has
\* neither a start nor a due date.
C1_RuleEngineRemovesDates ==
    (pc \in {"rules_applied", "rules_returned"} /\ HasDateColumns(df)) =>
        \A i \in 1..NRows(df) : Forbidden(df.rows[i]) => NoDates(df.rows[i])

\* A Backlog row that came with both dates has lost them to the rule engine
\* called alone.
C1_Witness ==
    /\ pc = "rules_returned"
    /\ HasDateColumns(df)
    /\ \E i \in 1..NRows(df) :
          /\ df.rows[i]["Bucket"] = Text(<<"B", "a", "c", "k", "l", "o", "g">>)
          /\ NotNA(InputFrame.rows[i]["Data de início"])
          /\ NotNA(InputFrame.rows[i]["Data de entrega"])
          /\ NoDates(df.rows[i])

\* C2: in the sheet main saves, every row whose normalized bucket is not in
\* the allow-list has neither a start nor a due date: parse_dates and
\* fill_missing_start_dates give none back.
C2_SavedSheetKeepsRule ==
    written => \A i \in 1..NRows(output_file) :
                   Forbidden(output_file.rows[i]) => NoDates(output_file.rows[i])

\* A saved row of a forbidden bucket whose due date was given in the input.
C2_Witness ==
    /\ written
    /\ \E i \in 1..NRows(output_file) :
          /\ Forbidden(output_file.rows[i])
          /\ NotNA(InputFrame.rows[i]["Data de entrega"])
          /\ IsNA(InputFrame.rows[i]["Data de início"])
          /\ NoDates(output_file.rows[i])

\* C3: from the load to the saved sheet, the frame of main has as many rows
\* as the input sheet.
C3_RowCountPreserved ==
    /\ (entry = "main" /\ Reached("loaded")) => NRows(df) = NRows(input_file)
    /\ written => NRows(output_file) = NRows(input_file)

\* A saved sheet of more than one row, one of them in a forbidden bucket.
C3_Witness ==
    /\ written
    /\ NRows(input_file) > 1
    /\ NRows(output_file) = NRows(input_file)
    /\ \E i \in 1..NRows(output_file) : Forbidden(output_file.rows[i])

\* C4: the identifiers of the saved sheet are those of the input sheet, as
\* validate_unique_ids compares them.
C4_IdentifiersPreserved ==
    written =>
        IdSet(ReadExcel(input_file), InputIdColumn(ReadExcel(input_file)))
          = IdSet(ReadExcel(output_file),
                  OutputIdColumn(ReadExcel(input_file), ReadExcel(output_file)))

\* The rows of the end-to-end scenario after main: the first without dates,
\* the second with its due date and a start 20 days earlier, the third with
\* both dates as given.
ScenarioRowsAsExpected ==
    /\ NRows(output_file) = 3
    /\ NoDates(output_file.rows[1])
    /\ output_file.rows[2]["Data de entrega"] = Ts(Timestamp(2024, 3, 25))
    /\ output_file.rows[2]["Data de início"] = Ts(Timestamp(2024, 3, 5))
    /\ output_file.rows[3]["Data de entrega"] = Ts(Timestamp(2024, 3, 25))
    /\ output_file.rows[3]["Data de início"] = Ts(Timestamp(2024, 3, 1))

IsScenario == input_file \in ScenarioSheets

\* C5: on the three records of the end-to-end scenario, main gives the rows
\* expected and run_all_validations returns true.
C5_ScenarioPasses ==
    (pc = "validated" /\ IsScenario) => (ScenarioRowsAsExpected /\ verdict = "passed")

\* The part of the scenario that the pipeline does deliver: the rows.
ScenarioRowsHold == (written /\ IsScenario) => ScenarioRowsAsExpected

\* What fails in it: the check of the critical dates, and only that one.
ScenarioOnlyCriticalDatesFail ==
    (pc = "validated" /\ IsScenario) =>
        \A i \in 1..Len(results) :
            ~results[i].passed /\ results[i].severity = "ERROR"
                <=> results[i].test_name = "Datas Críticas"

\* C6: the rule engine's normalization is idempotent: applied to its own
\* result, at any site, it returns that result.
C6_NormalizeIdempotent ==
    [][\A s \in Sites :
          (norm[s].passes >= 1 /\ norm'[s].passes = norm[s].passes + 1) =>
              /\ norm'[s].out = norm[s].out
              /\ norm'[s].out_variant = norm[s].out_variant]_vars

\* The rule engine's normalization applied twice to a label it changes.
C6_Witness ==
    /\ norm["pipeline_record"].passes > 1
    /\ norm["pipeline_record"].out # label
    /\ norm["pipeline_record"].out # << >>

\* C7: two spellings of a label that differ only in letter case, in the
\* blanks around it or in accents are normalized to the same text by the
\* rule engine.
C7_SpellingsNormalizeAlike ==
    norm["pipeline_record"].passes >= 1 =>
        norm["pipeline_record"].out = norm["pipeline_record"].out_variant

\* The spellings named in the claim do normalize to "execucao", which is in
\* the allow-list.
ExecucaoSpellings ==
    { <<"E", "x", "e", "c", "u", "ç", "ã", "o">>,
      <<"e", "x", "e", "c", "u", "c", "a", "o">>,
      <<" ", "E", "X", "E", "C", "U", "Ç", "Ã", "O", " ">> }

ExecucaoSpellingsAllowed ==
    (norm["pipeline_record"].passes >= 1 /\ label \in ExecucaoSpellings) =>
        /\ norm["pipeline_record"].out = <<"e", "x", "e", "c", "u", "c", "a", "o">>
        /\ norm["pipeline_record"].out_variant = norm["pipeline_record"].out
        /\ norm["pipeline_record"].out \in AllowedBucketsNormalized

\* Spellings without a letter outside the accent table are normalized alike.
OutsideTable == {"â", "Â", "ô", "Ô", "à", "À"}

TableSpellingsNormalizeAlike ==
    (/\ norm["pipeline_record"].passes >= 1
     /\ \A i \in 1..Len(label) : label[i] \notin OutsideTable) =>
        norm["pipeline_record"].out = norm["pipeline_record"].out_variant

\* C8: the four sites that normalize a bucket label return the same text for
\* the same label, and the two scripts classify it alike.
C8_SitesAgree ==
    /\ \A s1, s2 \in Sites :
          (norm[s1].passes >= 1 /\ norm[s2].passes >= 1) => norm[s1].out = norm[s2].out
    /\ (norm["pipeline_record"].passes >= 1 /\ norm["debug_record"].passes >= 1) =>
          (norm["pipeline_record"].out \in AllowedBucketsNormalized
             <=> norm["debug_record"].out \in DebugAllowedNormalized)

\* The step of fill_missing_start_dates that returns, in main or alone.
FillReturns ==
    /\ pc \in {"parsed", "loaded"}
    /\ pc' \in {"starts_filled", "fill_returned"}

FillColumnsPresent == {"Data de início", "Data de entrega"} \subseteq df.columns

\* C9: fill_missing_start_dates gives every row with a due date and no start
\* date the start date due - days_before calendar days; a due date of
\* 2024-03-25 gives, 20 days before, 2024-03-05.
C9_StartIsDueMinusOffset ==
    [][(FillReturns /\ FillColumnsPresent) =>
          \A i \in 1..NRows(df) :
              (NotNA(df.rows[i]["Data de entrega"]) /\ IsNA(df.rows[i]["Data de início"])) =>
                  /\ df'.rows[i]["Data de início"].k = "ts"
                  /\ df'.rows[i]["Data de início"].t
                       = df.rows[i]["Data de entrega"].t - START_DATE_FILL_DAYS * 24 * 60
                  /\ df.rows[i]["Data de entrega"] = Ts(Timestamp(2024, 3, 25)) =>
                       df'.rows[i]["Data de início"] = Ts(Timestamp(2024, 3, 5))]_vars

\* Two rows had a due date and no start date, and both got 2024-03-05.
C9_Witness ==
    /\ pc = "fill_returned"
    /\ FillColumnsPresent
    /\ \E i, j \in 1..NRows(df) :
          /\ i # j
          /\ \A k \in {i, j} :
                /\ IsNA(InputFrame.rows[k]["Data de início"])
                /\ InputFrame.rows[k]["Data de entrega"] = Ts(Timestamp(2024, 3, 25))
                /\ df.rows[k]["Data de início"] = Ts(Timestamp(2024, 3, 5))

\* C10: fill_missing_start_dates changes nothing but the start date of the
\* rows with a due date and no start date: the other start dates, the due
\* dates, the other columns and the rows stay, and without the start or the
\* due column the frame stays as it is.
C10_FillFrame ==
    [][FillReturns =>
          /\ df'.columns = df.columns
          /\ NRows(df') = NRows(df)
          /\ ~FillColumnsPresent => df' = df
          /\ FillColumnsPresent =>
                \A i \in 1..NRows(df) :
                    /\ \A c \in df.columns \ {"Data de início"} :
                          df'.rows[i][c] = df.rows[i][c]
                    /\ (NotNA(df.rows[i]["Data de início"]) \/ IsNA(df.rows[i]["Data de entrega"]))
                          => df'.rows[i]["Data de início"] = df.rows[i]["Data de início"]]_vars

\* The inferencer has filled one row and left alone a row that had both
\* dates and a row that had a start date only.
C10_Witness ==
    /\ pc = "fill_returned"
    /\ FillColumnsPresent
    /\ \E i, j \in 1..NRows(df) :
          /\ IsNA(InputFrame.rows[i]["Data de início"])
          /\ NotNA(df.rows[i]["Data de início"])
          /\ NotNA(InputFrame.rows[j]["Data de início"])
          /\ df.rows[j] = InputFrame.rows[j]

(***************************************************************************)
(* Properties of the validator                                             *)
(***************************************************************************)
\* A recorded result is a failure of severity ERROR or CRITICAL.
Blocking(r) == ~r.passed /\ r.severity \in {"ERROR", "CRITICAL"}

\* The result a check recorded, the checks being numbered in the order of
\* run_all_validations.
Recorded(k) == Len(results) >= k

\* C11: run_all_validations returns true exactly when both files were read
\* and no recorded result is a failure of severity ERROR or CRITICAL: a
\* failure of severity WARNING or INFO does not make it false, and a check
\* that raised is recorded as a failure of severity ERROR and makes it false.
C11_VerdictFollowsErrors ==
    pc = "returned" =>
        /\ verdict = "passed" <=>
              (env = "readable" /\ \A k \in 1..Len(results) : ~Blocking(results[k]))
        /\ (env = "readable" /\ BucketRulesRaises(output_file)) =>
              (results[4].passed = FALSE /\ results[4].severity = "ERROR"
                 /\ verdict = "failed")

\* run_all_validations has returned true although a check failed with
\* severity WARNING.
C11_Witness ==
    /\ pc = "returned"
    /\ verdict = "passed"
    /\ \E k \in 1..Len(results) : ~results[k].passed /\ results[k].severity = "WARNING"

\* The loss of a date column is above a percentage of the dates the input had.
LossAbove(input_valid, output_valid, percent) ==
    input_valid > 0 /\ (input_valid - output_valid) * 100 > percent * input_valid

\* A date column tracked in both sheets has lost more than the percentage.
TrackedLoss(input_col, output_col, percent) ==
    /\ input_col \in input_file.columns
    /\ output_col \in output_file.columns
    /\ LossAbove(CountNotNA(input_file, input_col), CountNotNA(output_file, output_col),
                 percent)

\* C12: validate_critical_dates fails, with severity ERROR, exactly when a
\* tracked date column has lost strictly more than its threshold of the
\* dates the input had: 5% for the due date, 20% for the start date and the
\* creation date; a loss at the threshold, a gain, or an input without
\* dates passes.
C12_CriticalDatesThresholds ==
    Recorded(3) =>
        LET lost == \/ TrackedLoss("Data de conclusão", "Data de entrega", 5)
                    \/ TrackedLoss("Data de início", "Data de início", 20)
                    \/ TrackedLoss("Criado em", "Data de criação", 20)
        IN  /\ lost => (results[3].passed = FALSE /\ results[3].severity = "ERROR")
            /\ ~lost => results[3].passed = TRUE

\* One due date in ten is lost and validate_critical_dates has failed.
C12_Witness ==
    /\ Recorded(3)
    /\ CountNotNA(input_file, "Data de conclusão") = 10
    /\ "Data de entrega" \in output_file.columns
    /\ CountNotNA(output_file, "Data de entrega") = 9
    /\ results[3].passed = FALSE
    /\ results[3].severity = "ERROR"

\* The output rows of a category: the label, trimmed and in small letters,
\* is the name of the category.
Category(name) ==
    { i \in 1..NRows(output_file) :
        /\ output_file.rows[i]["Bucket"].k = "str"
        /\ StrLower(StrStrip(output_file.rows[i]["Bucket"].s)) = name }

\* The rows of a set that have a cell of the column, and those that have none.
WithDate(rows, col) == { i \in rows : NotNA(output_file.rows[i][col]) }
WithoutDate(rows, col) == { i \in rows : IsNA(output_file.rows[i][col]) }

\* C13: validate_bucket_rules, when it returns, fails with severity ERROR
\* exactly when a record of 'backlog' or 'a fazer' carries a start or a due
\* date, or strictly more than 30% of the records of 'execução' have no due
\* date; otherwise it passes.
C13_BucketRulesVerdict ==
    (Recorded(4) /\ ~BucketRulesRaises(output_file)) =>
        LET forbidden == Category(Backlog) \cup Category(AFazer)
            breach == /\ "Bucket" \in output_file.columns
                      /\ \/ WithDate(forbidden, "Data de início") # {}
                         \/ WithDate(forbidden, "Data de entrega") # {}
                         \/ 10 * Cardinality(WithoutDate(Category(Execucao), "Data de entrega"))
                              > 3 * Cardinality(Category(Execucao))
        IN  /\ breach => (results[4].passed = FALSE /\ results[4].severity = "ERROR")
            /\ ~breach => results[4].passed = TRUE

\* Four of ten records of 'execução' have no due date and the check failed.
C13_Witness ==
    /\ Recorded(4)
    /\ "Bucket" \in output_file.columns
    /\ "Data de entrega" \in output_file.columns
    /\ Cardinality(Category(Execucao)) = 10
    /\ Cardinality(WithoutDate(Category(Execucao), "Data de entrega")) = 4
    /\ results[4].passed = FALSE
    /\ results[4].severity = "ERROR"

\* The identifiers of a sheet: the texts of the cells of its identifier
\* column that are not empty.
IdsOf(sheet, col) ==
    { sheet.rows[i][col].s : i \in { j \in 1..NRows(sheet) : sheet.rows[j][col].k = "str" } }

BothIdColumns ==
    "Identificação da tarefa" \in input_file.columns /\ "ID da Tarefa" \in output_file.columns

StartsAfterDue ==
    /\ {"Data de início", "Data de entrega"} \subseteq output_file.columns
    /\ \E i \in 1..NRows(output_file) :
          /\ output_file.rows[i]["Data de início"].k = "ts"
          /\ output_file.rows[i]["Data de entrega"].k = "ts"
          /\ output_file.rows[i]["Data de início"].t > output_file.rows[i]["Data de entrega"].t

\* C15: when an output row starts after it is due, the validator records a
\* failure of severity ERROR for it and run_all_validations returns false.
C15_LateStartFailsValidation ==
    (pc = "returned" /\ env = "readable" /\ StartsAfterDue) =>
        (Blocking(results[5]) /\ verdict = "failed")

\* What the validator does with such a row: validate_data_consistency fails
\* with severity WARNING, which does not count against the verdict.
LateStartIsWarning ==
    (pc = "returned" /\ env = "readable" /\ StartsAfterDue) =>
        (results[5].passed = FALSE /\ results[5].severity = "WARNING")

(***************************************************************************)
(* Properties of a run of main                                             *)
(***************************************************************************)
\* Whenever the run has been at position b, it had been at position a before.
Before(a, b) ==
    \A k \in 1..Len(trace) : trace[k] = b => \E j \in 1..(k - 1) : trace[j] = a

\* C16: the components run in the order date parser, rule engine,
\* start-date inferencer, persistence, validator: the rule engine has not
\* run unless the dates were parsed, nor the inferencer unless the rule
\* engine had run.
C16_ComponentOrder ==
    entry = "main" =>
        /\ Before("parsed", "rules_applied")
        /\ Before("rules_applied", "starts_filled")
        /\ Before("starts_filled", "saved")
        /\ Before("saved", "validated")

\* The order main does keep: rule engine, date parser, start-date
\* inferencer, persistence, validator.
OrderOfMain ==
    entry = "main" =>
        /\ Before("rules_applied", "parsed")
        /\ Before("parsed", "starts_filled")
        /\ Before("starts_filled", "saved")
        /\ Before("saved", "validated")

\* The positions main is at after each of its steps before the save.
TransformPositions ==
    {"loaded", "columns_ok", "cleaned", "backed_up", "defaults_filled", "rules_applied",
     "parsed", "starts_filled", "debugged"}

\* C17: main writes the output file only once every step before the save
\* has completed: a run that raised, or was interrupted before the save,
\* has written nothing.
C17_SavedAfterAllSteps ==
    entry = "main" =>
        /\ written => (Reached("saved") /\ \A p \in TransformPositions : Before(p, "saved")
                                        /\ Reached(p))
        /\ ~Reached("saved") => (~written /\ output_file = NoFrame)
        /\ Reached("raised") => ~written

\* A run interrupted after the last transformation and before the save: no
\* file is written.
C17_Witness ==
    /\ entry = "main"
    /\ exit_code = 130
    /\ Reached("debugged")
    /\ ~Reached("saved")
    /\ ~written

\* The launches that find no input file to process.
FailedLaunch == env \in {"named_missing", "none_found", "bad_paths"}

\* C18: processar_planner.main ends with exit code 130 on Ctrl+C, with 1
\* when the input file is missing, none is found, the paths are not valid
\* or an exception is raised, and with 0 otherwise, also when the validator
\* has reported a failure.
C18_ExitCodes ==
    entry = "main" =>
        /\ pc # "exited" => exit_code = -1
        /\ pc = "exited" =>
              exit_code = CASE exception = "KeyboardInterrupt" -> 130
                            [] exception # "none"              -> 1
                            [] FailedLaunch                    -> 1
                            [] OTHER                           -> 0

\* The validator has reported a failure and the run ended with exit code 0.
C18_Witness ==
    /\ entry = "main"
    /\ pc = "exited"
    /\ verdict = "failed"
    /\ exit_code = 0

\* C19: without Bucket, Título or Data de entrega after the rename,
\* validate_required_columns raises KeyError before any transformation and
\* nothing is written; with the three of them, no later step raises KeyError.
C19_MissingColumnErrors ==
    (entry = "main" /\ Reached("loaded")) =>
        /\ RequiredColumnsMissing(InputFrame) =>
              /\ ~Reached("columns_ok")
              /\ ~written
              /\ Reached("raised") => exception = "KeyError"
        /\ Reached("columns_ok") => exception # "KeyError"

\* The half of it that holds: the abort on a required column.
RequiredColumnsAbort ==
    (entry = "main" /\ Reached("loaded") /\ RequiredColumnsMissing(InputFrame)) =>
        /\ ~Reached("columns_ok")
        /\ ~written
        /\ Reached("raised") => exception = "KeyError"

\* C20: every record without an assignee in the input has DEFAULT_ASSIGNEE
\* as its assignee in the sheet main saves.
C20_DefaultAssignee ==
    (written /\ "Atribuído a" \in input_file.columns) =>
        \A i \in 1..NRows(input_file) :
            IsNA(input_file.rows[i]["Atribuído a"]) =>
                output_file.rows[i]["Atribuído"] = Text(DEFAULT_ASSIGNEE)

\* What such a record carries instead: the text 'nan' that
\* clean_string_columns made of the empty cell.
EmptyAssigneeSavedAsNanText ==
    (written /\ "Atribuído a" \in input_file.columns) =>
        \A i \in 1..NRows(input_file) :
            IsNA(input_file.rows[i]["Atribuído a"]) =>
                output_file.rows[i]["Atribuído"] = Text(<<"n", "a", "n">>)


(***************************************************************************)
(* The date parser alone: parse_single_date on a value that is given, or   *)
(* on the text of a date written in one of the supported formats           *)
(***************************************************************************)
DateYears == {2023, 2024}

\* The dates written and read back, as timestamps at midnight.
Dates ==
    { Timestamp(y, m, d) : y \in DateYears, m \in 1..12, d \in 1..31 }
      \cap { Timestamp(y, 1, 1) + Timedelta(n) : y \in DateYears, n \in 0..365 }

\* Their times of day, in minutes: midnight and 14:30.
Times == {0, 14 * 60 + 30}

DateOnlyFormats == {"dd/mm/yyyy", "d/m/yyyy", "yyyy-mm-dd", "dd.mm.yyyy"}
SupportedFormats == DateOnlyFormats \cup {"dd/mm/yyyy HH:MM"}

\* A number in as few digits as it takes.
Unpadded(n) == IF n < 10 THEN NumText(n, 1) ELSE NumText(n, 2)

\* The text of a timestamp in a format: strftime
FormatDate(t, format) ==
    LET c == CivilFromDays(t \div 1440)
        y == NumText(c[1], 4)
        m == NumText(c[2], 2)
        d == NumText(c[3], 2)
    IN  CASE format = "dd/mm/yyyy" -> d \o <<"/">> \o m \o <<"/">> \o y
          [] format = "d/m/yyyy"   -> Unpadded(c[3]) \o <<"/">> \o Unpadded(c[2]) \o <<"/">> \o y
          [] format = "yyyy-mm-dd" -> y \o <<"-">> \o m \o <<"-">> \o d
          [] format = "dd.mm.yyyy" -> d \o <<".">> \o m \o <<".">> \o y
          [] format = "dd/mm/yyyy HH:MM" ->
                 d \o <<"/">> \o m \o <<"/">> \o y \o <<" ">>
                   \o NumText((t % 1440) \div 60, 2) \o <<":">> \o NumText(t % 60, 2)

\* Texts that fit none of the patterns.
NoDateTexts ==
    { <<"N", "a", "N">>, <<"N", "A", "N">>, <<"n", "a", "t">>, <<"N", "A", "T">>, <<" ">>,
      <<" ", "n", "a", "n", " ">>, <<"a", "b", "c">>, <<"2", "0", "2", "4">>,
      <<"0", "5", "/", "0", "3", "/", "2", "4">>,
      <<"2", "0", "2", "4", "/", "0", "3", "/", "0", "5">>,
      <<"0", "5", "/", "0", "3", "/", "2", "0", "2", "4", "x">>,
      <<"0", "5", " ", "0", "3", " ", "2", "0", "2", "4">> }

\* Texts that fit a pattern and are no date.
FalseDateTexts ==
    { BadDateText,
      <<"2", "0", "2", "4", "-", "0", "3", "-", "0", "5", "x">>,
      <<"0", "5", ".", "1", "3", ".", "2", "0", "2", "4", "5">>,
      <<"0", "5", "/", "0", "3", "/", "2", "0", "2", "4", " ", "2", "5", ":", "0", "0">> }

\* The values parse_single_date is given as they are.
GivenValues ==
    {NaN, NaT, Ts(Timestamp(2024, 3, 5)), Ts(Timestamp(2024, 3, 5) + 14 * 60 + 30),
     Text(<< >>), Text(<<"n", "a", "n">>), Text(<<"N", "a", "T">>),
     Text(<<" ", "0", "5", "/", "0", "3", "/", "2", "0", "2", "4", " ">>)}
      \cup { Text(s) : s \in NoDateTexts \cup FalseDateTexts }

DateInit ==
    /\ env \in PandasBuilds
    /\ \/ /\ pc = "given"
          /\ \E v \in GivenValues :
                call = [fn |-> "parse_single_date", format |-> "none", date |-> 0,
                        value |-> v, attempted |-> FALSE, result |-> NaN]
       \/ /\ pc = "chosen"
          /\ \E d \in Dates : \E tod \in Times :
                call = [fn |-> "parse_single_date", format |-> "none", date |-> d + tod,
                        value |-> NaN, attempted |-> FALSE, result |-> NaN]
    /\ input_file = NoFrame /\ entry = "parse_single_date" /\ df = NoFrame
    /\ output_file = NoFrame /\ written = FALSE /\ results = << >> /\ verdict = "none"
    /\ exit_code = -1 /\ trace = << >> /\ exception = "none"
    /\ label = << >> /\ variant = << >> /\ norm = NormIdle

\* The date is written in a format; a format without time of day is for a
\* date without one.
WriteDate ==
    /\ pc = "chosen"
    /\ \E format \in SupportedFormats :
          /\ format \in DateOnlyFormats => call.date % 1440 = 0
          /\ call' = [call EXCEPT !.format = format,
                                  !.value = Text(FormatDate(call.date, format))]
    /\ pc' = "given"
    /\ UNCHANGED <<input_file, entry, df, output_file, written, results, verdict, env,
                   exit_code, trace, exception, normVars>>

\* parse_single_date(value)
ParseSingleDate ==
    /\ pc = "given"
    /\ call' = [call EXCEPT !.result = parse_single_date(call.value, env).result,
                            !.attempted = parse_single_date(call.value, env).attempted]
    /\ pc' = "returned"
    /\ UNCHANGED <<input_file, entry, df, output_file, written, results, verdict, env,
                   exit_code, trace, exception, normVars>>

DateNext == WriteDate \/ ParseSingleDate

SpecDate == DateInit /\ [][DateNext]_vars

(***************************************************************************)
(* The output path alone: generate_output_filename at the instants of a    *)
(* clock that runs in half seconds, called alone and by the save of main   *)
(***************************************************************************)
\* How many half seconds the clock runs, and how many paths are asked for.
MaxTicks == 3
MaxRuns == 2

\* The seconds since 1970-01-01 at which the clock starts: 5 March 2024,
\* 14:30:00, and the last second of 2024.
ClockStarts ==
    { (Timestamp(2024, 3, 5) + 14 * 60 + 30) * 60,
      (Timestamp(2024, 12, 31) + 23 * 60 + 59) * 60 + 59 }

OutputDirs == { <<"o", "u", "t", "p", "u", "t", "s">>, <<"o", "l", "d">> }

\* The default of prefix, and another one.
Prefixes ==
    { <<"T", "a", "r", "e", "f", "a", "s", "P", "l", "a", "n", "n", "e", "r">>,
      <<"T", "e", "s", "t", "e">> }

\* The second of an instant, the instant being a start in seconds since
\* 1970-01-01 and the half seconds gone by since.
SecondOf(start, halves) == start + halves \div 2

\* pd.Timestamp.now().strftime("%Y%m%d_%H%M%S") within a second: what is
\* less than a second is not written
StrftimeCompact(second) ==
    LET c      == CivilFromDays(second \div 86400)
        tod    == second % 86400
    IN  NumText(c[1], 4) \o NumText(c[2], 2) \o NumText(c[3], 2) \o <<"_">>
          \o NumText(tod \div 3600, 2) \o NumText((tod % 3600) \div 60, 2)
          \o NumText(tod % 60, 2)

\* generate_output_filename(output_dir, prefix) within a second
generate_output_filename(output_dir, prefix, second) ==
    output_dir \o <<"/">> \o prefix \o <<"_">> \o StrftimeCompact(second)
      \o <<".", "x", "l", "s", "x">>

FileInit ==
    /\ pc = "idle"
    /\ \E start \in ClockStarts :
          call = [fn |-> "generate_output_filename", start |-> start, now |-> 0,
                  returned |-> << >>, disk |-> {}]
    /\ input_file = NoFrame /\ entry = "generate_output_filename" /\ df = NoFrame
    /\ output_file = NoFrame /\ written = FALSE /\ results = << >> /\ verdict = "none"
    /\ env = "none" /\ exit_code = -1 /\ trace = << >> /\ exception = "none"
    /\ label = << >> /\ variant = << >> /\ norm = NormIdle

FileUnchanged ==
    UNCHANGED <<input_file, entry, pc, df, output_file, written, results, verdict, env,
                exit_code, trace, exception, normVars>>

\* Half a second passes.
Tick ==
    /\ pc = "idle"
    /\ call.now < MaxTicks
    /\ call' = [call EXCEPT !.now = @ + 1]
    /\ FileUnchanged

\* generate_output_filename(output_dir, prefix), called alone
GenerateOutputFilename ==
    /\ pc = "idle"
    /\ Len(call.returned) < MaxRuns
    /\ \E output_dir \in OutputDirs : \E prefix \in Prefixes :
          call' = [call EXCEPT !.returned =
                      Append(@, [output_dir |-> output_dir, prefix |-> prefix,
                                 at |-> call.now, saved |-> FALSE,
                                 path |-> generate_output_filename(
                                              output_dir, prefix,
                                              SecondOf(call.start, call.now))])]
    /\ FileUnchanged

\* pipeline.main, lines 467-468: the path is generated for the default
\* prefix and the sheet of the run is written to it, over what is there.
SaveUnderGeneratedName ==
    /\ pc = "idle"
    /\ Len(call.returned) < MaxRuns
    /\ \E output_dir \in OutputDirs :
          LET path == generate_output_filename(
                          output_dir,
                          <<"T", "a", "r", "e", "f", "a", "s", "P", "l", "a", "n", "n", "e", "r">>,
                          SecondOf(call.start, call.now))
              run  == Len(call.returned) + 1
          IN  call' = [call EXCEPT
                  !.returned = Append(@, [output_dir |-> output_dir,
                                          prefix |-> <<"T", "a", "r", "e", "f", "a", "s", "P",
                                                       "l", "a", "n", "n", "e", "r">>,
                                          at |-> call.now, saved |-> TRUE, path |-> path]),
                  !.disk = { f \in @ : f.path # path } \cup {[path |-> path, run |-> run]}]
    /\ FileUnchanged

FileNext == Tick \/ GenerateOutputFilename \/ SaveUnderGeneratedName

SpecFile == FileInit /\ [][FileNext]_vars

(***************************************************************************)
(* Properties of the rule engine's frame and of the date parser            *)
(***************************************************************************)
\* The rule engine returns, as a step of main or called alone.
RuleEngineReturns ==
    /\ pc = "defaults_filled" \/ (pc = "loaded" /\ entry = "validate_dates_by_bucket")
    /\ pc' \in {"rules_applied", "rules_returned"}

C22_MaskNullsDateCols ==
    pc = "mask_returned" =>
        \A i \in 1..NRows(df) : \A c \in call.date_cols :
            Forbidden(df.rows[i]) => IsNA(df.rows[i][c])

\* What the code does instead: whatever date_cols names, the start and the
\* due date of those rows are null and every other column is as it came.
MaskIgnoresDateCols ==
    pc = "mask_returned" =>
        \A i \in 1..NRows(df) :
            /\ Forbidden(df.rows[i]) => NoDates(df.rows[i])
            /\ df.rows[i]["Data de conclusão"] = call.caller_df.rows[i]["Data de conclusão"]
\* parse_dates returns, as a step of main or called alone.
ParseDatesReturns ==
    /\ pc = "rules_applied" \/ (pc = "loaded" /\ entry = "parse_dates")
    /\ pc' \in {"parsed", "parse_returned"}

\* The date columns of a frame.
DateColumnsOf(frame) ==
    { DATE_COLUMNS[k] : k \in 1..Len(DATE_COLUMNS) } \cap frame.columns

\* A cell that holds no value: null, the empty text, or the text 'nan' that
\* clean_string_columns makes of a missing cell.
Missing(c) == IsNA(c) \/ c = Text(<< >>) \/ c = Text(<<"n", "a", "n">>)

\* C23: the failures parse_dates counts for a column are at most the cells
\* that held a value and came out null; a cell that was null, empty or the
\* text 'nan' is never counted as a failure.
C23_MissingIsNoFailure ==
    [][ParseDatesReturns =>
          \A col \in DateColumnsOf(df) :
              ParsingStats(df, col).failed <=
                  Cardinality({ i \in 1..NRows(df) :
                                  ~Missing(df.rows[i][col]) /\ IsNA(df'.rows[i][col]) })]_vars
\* C30: for every date column parse_dates processes, failed is not
\* negative; successful, failed and the cells that were null before add up
\* to the rows; success_rate is between 0 and 100, and 0 when nothing was
\* there to parse; the column is warned about exactly when failed > 0; the
\* '<column>_original' column is in the result exactly when failed > 0; and
\* the frame of the caller is as it was passed.
C30_ParseStatistics ==
    [][ParseDatesReturns =>
          /\ \A col \in DateColumnsOf(df) :
                LET stats == ParsingStats(df, col)
                IN  /\ stats.failed >= 0
                    /\ stats.successful + stats.failed
                          + (NRows(df) - CountNotNA(df, col)) = NRows(df)
                    /\ stats.success_rate \in 0..100
                    /\ stats.successful + stats.failed = 0 => stats.success_rate = 0
                    /\ col \in ParseWarnings(df, DATE_COLUMNS, TRUE) <=> stats.failed > 0
                    /\ BackupColumn(col) \in df'.columns <=> stats.failed > 0
          /\ pc' = "parse_returned" =>
                /\ call'.caller_df = df
                /\ call'.warnings = ParseWarnings(df, DATE_COLUMNS, TRUE)]_vars

\* parse_dates called alone has met 31/02/2024 among the start dates: the
\* column is warned about and its texts are kept in 'Data de início_original',
\* the due dates are all parsed and have no such column, and the caller
\* still holds the texts.
C30_Witness ==
    /\ pc = "parse_returned"
    /\ call.warnings = {"Data de início"}
    /\ BackupColumn("Data de início") \in df.columns
    /\ BackupColumn("Data de entrega") \notin df.columns
    /\ \E i \in 1..NRows(df) :
          /\ call.caller_df.rows[i]["Data de início"] = Text(BadDateText)
          /\ df.rows[i]["Data de início"] = NaT
          /\ df.rows[i]["Data de entrega"] = Ts(Timestamp(2024, 3, 25))
\* C24: parse_single_date returns null for null, the empty text and
\* 'nan'/'nat' in any case; returns a timestamp as it is; and returns null
\* without parsing for a text that fits none of the patterns.
C24_NullsAndNoDates ==
    pc = "returned" =>
        /\ IsNA(call.value) => IsNA(call.result) /\ ~call.attempted
        /\ (call.value.k = "str"
              /\ StrLower(call.value.s) \in {<< >>, <<"n", "a", "n">>, <<"n", "a", "t">>})
             => IsNA(call.result)
        /\ call.value.k = "ts" => call.result = call.value
        /\ (call.value.k = "str" /\ call.value.s \in NoDateTexts)
             => IsNA(call.result) /\ ~call.attempted

\* 'NAT', which the list of line 78 does not hold, has come back as null
\* without a parse.
C24_Witness ==
    /\ pc = "returned"
    /\ call.value = Text(<<"N", "A", "T">>)
    /\ IsNA(call.result)
    /\ ~call.attempted

\* A text that fits a pattern and is no date is parsed, in vain.
FalseDateIsAttempted ==
    (pc = "returned" /\ call.value.k = "str" /\ call.value.s \in FalseDateTexts)
        => IsNA(call.result) /\ call.attempted

\* C25: the text of a date in a supported format, parsed day first, is the
\* date again.
C25_RoundTrip ==
    (pc = "returned" /\ call.format \in SupportedFormats) => call.result = Ts(call.date)

\* What holds of the round trip: every format but yyyy-mm-dd gives the date
\* back under every build; yyyy-mm-dd does when the text is read as ISO
\* first, or when its day is above 12 or equal to its month.
RoundTripButIso ==
    (pc = "returned" /\ call.format \in SupportedFormats) =>
        \/ call.result = Ts(call.date)
        \/ /\ env = "guessed_format"
           /\ call.format = "yyyy-mm-dd"
           /\ CivilFromDays(call.date \div 1440)[3] <= 12
           /\ CivilFromDays(call.date \div 1440)[3] # CivilFromDays(call.date \div 1440)[2]

\* 3/4/2024 is read as 3 April 2024 and 05/03/2024 14:30 as 5 March, 14:30.
DayFirstReadings ==
    pc = "returned" =>
        /\ call.value = Text(<<"3", "/", "4", "/", "2", "0", "2", "4">>)
             => call.result = Ts(Timestamp(2024, 4, 3))
        /\ call.value = Text(<<"0", "5", "/", "0", "3", "/", "2", "0", "2", "4">>)
             => call.result = Ts(Timestamp(2024, 3, 5))
(***************************************************************************)
(* Properties of the launcher, the validator's comparisons, the output     *)
(* path and repeated validation                                            *)
(***************************************************************************)
\* How often a run has been at a position.
TimesReached(position) == Cardinality({ k \in 1..Len(trace) : trace[k] = position })

\* C26: in a run of processar_planner.main the validator runs at most once,
\* only after the sheet has been saved, and never under --no-validation; a
\* run without the flag that ends normally has had its validation.
C26_ValidatorRuns ==
    entry = "main" =>
        /\ TimesReached("validated") <= 1
        /\ Reached("validated") => written /\ Before("saved", "validated")
        /\ env = "no_validation" => ~Reached("validated") /\ results = << >>
        /\ (pc = "exited" /\ exit_code = 0 /\ env # "no_validation") => Reached("validated")

\* A run under --no-validation has saved its sheet and ended normally
\* without a single result of the validator.
C26_Witness ==
    /\ entry = "main"
    /\ env = "no_validation"
    /\ pc = "exited"
    /\ exit_code = 0
    /\ written
    /\ results = << >>
    /\ verdict = "none"

\* A run without the flag has validated once, after the save, and ended.
ValidatedOnce ==
    /\ entry = "main"
    /\ env = "ok"
    /\ pc = "exited"
    /\ exit_code = 0
    /\ TimesReached("validated") = 1
    /\ Len(results) = 5
\* The rule engine classifies a row under a category: its normalized label
\* is the normalized name of the category.
ClassifiedAs(r, name) ==
    r["Bucket"].k = "str" /\ NormalizeRecordLabel(r["Bucket"].s) = NormalizeAllowedLabel(name)

\* C27: the records validate_bucket_rules counts under 'execução', and those
\* the mask of debug_missing_due selects for it, are the records the rule
\* engine classifies under that category.
C27_NormalizedComparisons ==
    (Recorded(4) /\ "Bucket" \in output_file.columns /\ IsObjectColumn(output_file, "Bucket")) =>
        \A i \in 1..NRows(output_file) :
            /\ i \in RowsIn(output_file, Execucao)
                 <=> ClassifiedAs(output_file.rows[i], Execucao)
            /\ DebugTargetBucketMask(output_file, "Bucket", Execucao)[i]
                 <=> ClassifiedAs(output_file.rows[i], Execucao)

\* What holds: both select the records whose label, trimmed and lowered, is
\* 'execução' letter for letter, all of which the rule engine classifies
\* under the category.
AccentedSpellingOnly ==
    (Recorded(4) /\ "Bucket" \in output_file.columns /\ IsObjectColumn(output_file, "Bucket")) =>
        \A i \in 1..NRows(output_file) :
            /\ i \in RowsIn(output_file, Execucao)
                 <=> DebugTargetBucketMask(output_file, "Bucket", Execucao)[i]
            /\ i \in RowsIn(output_file, Execucao)
                 => ClassifiedAs(output_file.rows[i], Execucao)

\* Ten records of 'Execucao', four of them without a due date, have passed
\* the bucket rules: none of them was counted.
UnaccentedEscapesRule ==
    /\ Recorded(4)
    /\ {"Bucket", "Data de entrega"} \subseteq output_file.columns
    /\ NRows(output_file) = 10
    /\ \A i \in 1..10 : output_file.rows[i]["Bucket"] = Text(<<"E", "x", "e", "c", "u", "c", "a", "o">>)
    /\ Cardinality({ i \in 1..10 : IsNA(output_file.rows[i]["Data de entrega"]) }) = 4
    /\ RowsIn(output_file, Execucao) = {}
    /\ results[4].passed = TRUE
\* The names under which the checks of the battery record their results, in
\* the order of run_all_validations; a check that raised records the name of
\* its method.
BatteryNames ==
    << {"Contagem de Linhas", "validate_row_count"},
       {"IDs Únicos", "validate_unique_ids"},
       {"Datas Críticas", "validate_critical_dates"},
       {"Regras de Bucket", "validate_bucket_rules"},
       {"Consistência de Dados", "validate_data_consistency"} >>

\* C29: whenever run_all_validations has returned on files that load, the
\* results list holds one result for each check of the battery, in order.
C29_OneResultPerCheck ==
    (pc = "returned" /\ env = "readable") =>
        /\ Len(results) = Len(BatteryNames)
        /\ \A k \in 1..Len(results) : results[k].test_name \in BatteryNames[k]

\* What holds: each call appends its five results to those of the calls
\* before, and the value returned is false as soon as any of them, old or
\* new, is a failure of severity ERROR or CRITICAL.
ResultsAccumulate ==
    (pc = "returned" /\ env = "readable") =>
        /\ Len(results) = Len(BatteryNames) * CallsReturned
        /\ \A k \in 1..Len(results) :
              results[k].test_name \in BatteryNames[((k - 1) % Len(BatteryNames)) + 1]
        /\ verdict = "passed" <=> \A k \in 1..Len(results) : ~Blocking(results[k])
\* C28: two invocations of generate_output_filename for the same output
\* directory and prefix never return the same path, and no run writes over
\* the sheet of an earlier run.
C28_UniquePaths ==
    entry = "generate_output_filename" =>
        /\ \A i, j \in 1..Len(call.returned) :
              (/\ i < j
               /\ call.returned[i].output_dir = call.returned[j].output_dir
               /\ call.returned[i].prefix = call.returned[j].prefix)
                 => call.returned[i].path # call.returned[j].path
        /\ \A i \in 1..Len(call.returned) :
              call.returned[i].saved => [path |-> call.returned[i].path, run |-> i] \in call.disk

\* What holds: two paths for the same directory and prefix are the same
\* exactly when they were asked for within the same second.
SamePathWithinASecond ==
    entry = "generate_output_filename" =>
        \A i, j \in 1..Len(call.returned) :
            (/\ call.returned[i].output_dir = call.returned[j].output_dir
             /\ call.returned[i].prefix = call.returned[j].prefix)
               => (call.returned[i].path = call.returned[j].path
                     <=> call.returned[i].at \div 2 = call.returned[j].at \div 2)

\* Two runs have saved half a second apart and one sheet is on the disk.
LaterRunOverwrites ==
    /\ entry = "generate_output_filename"
    /\ Len(call.returned) = 2
    /\ call.returned[1].saved /\ call.returned[2].saved
    /\ call.returned[2].at = call.returned[1].at + 1
    /\ Cardinality(call.disk) = 1

\* The name written at the last second of 2024 and the one a second later.
YearTurns ==
    entry = "generate_output_filename" =>
        \A i \in 1..Len(call.returned) :
            LET stamp == SubSeq(call.returned[i].path, Len(call.returned[i].path) - 19,
                                Len(call.returned[i].path) - 5)
            IN  /\ SecondOf(call.start, call.returned[i].at)
                       = (Timestamp(2024, 12, 31) + 1439) * 60 + 59
                     => stamp = <<"2", "0", "2", "4", "1", "2", "3", "1", "_",
                                  "2", "3", "5", "9", "5", "9">>
                /\ SecondOf(call.start, call.returned[i].at) = Timestamp(2025, 1, 1) * 60
                     => stamp = <<"2", "0", "2", "5", "0", "1", "0", "1", "_",
                                  "0", "0", "0", "0", "0", "0">>
====
